---- MODULE Spec2Model ----
(***************************************************************************)
(* A model of the routing and aggregation core of metrix:                  *)
(*   src/src/processor.rs        TelemetryProcessor, ProcessingStrategy,   *)
(*                               ProcessingDecider, ProcessingOutcome      *)
(*   src/src/instruments/mod.rs  LabelFilter                               *)
(*   src/src/instruments/panel.rs Panel                                    *)
(*                                                                         *)
(* One TelemetryProcessor is fed by transmitters through an unbounded FIFO *)
(* channel.  Producers (Send), the clock (Tick) and the drop of the last   *)
(* transmitter (DropTransmitters) interleave with the consumer, whose      *)
(* process() call is split at its linearisation points: the entry          *)
(* (ProcessCall), one iteration of the drain loop (ProcessStep) and the    *)
(* exit (ProcessReturn).                                                   *)
(*                                                                         *)
(* Option<T> is a sequence of length 0 (None) or 1 (Some).  An Instant is  *)
(* a natural number; Instant 0 is the earliest representable instant.      *)
(***************************************************************************)
EXTENDS Naturals, Sequences, FiniteSets

VARIABLES
    workload,            \* what the producers of this run do (see Messages)
    clock,               \* Instant::now()
    txAlive,             \* at least one TelemetryTransmitter (Sender) exists
    queue,               \* the channel: messages sent and not yet received
    nsent,               \* history: the number of messages sent so far
    cockpits,            \* TelemetryProcessor.cockpits
    handlers,            \* TelemetryProcessor.handlers
    last_activity_at,    \* TelemetryProcessor.last_activity_at
    is_disconnected,     \* TelemetryProcessor.is_disconnected
    pc,                  \* position of the consumer: idle, loop, break, panicked
    max,                 \* process(): argument max
    strategy,            \* process(): argument strategy
    decider,             \* process(): local decider
    num_received,        \* process(): local num_received
    processed,           \* process(): local processed
    dropped,             \* process(): local dropped
    instruments_updated, \* process(): local instruments_updated
    outcome,             \* the ProcessingOutcome returned by the last call
    exit,                \* how the last call ended: none, early, normal, panic
    hist,                \* history: the messages the current (or last) call
                         \* received, with what was done with each
    started_at,          \* history: the clock when the current call started
    pre,                 \* history: the processor's fields when the call started
    max_inactivity_duration, \* TelemetryProcessor.max_inactivity_duration
    counted_at,          \* history: the clock when a call that counted a
                         \* message last returned (0: none has)
    snap,                \* history: what put_snapshot wrote, if the latest
                         \* step was a put_snapshot call
    solo_panel,          \* a Panel used on its own
    ncalls,              \* history: the handle_observation calls made on it
    call,                \* history: the last call made on a component used
                         \* on its own
    solo_filter,         \* a LabelFilter used on its own
    added,               \* history: the calls that built the filter or the
                         \* panel used on its own, in order
    mount,               \* a ProcessorMount and the processors it owns
    mcall                \* ProcessorMount::process or put_snapshot under
                         \* way: its locals and position

vars == <<workload, clock, txAlive, queue, nsent, cockpits, handlers, last_activity_at,
          is_disconnected, pc, max, strategy, decider, num_received, processed,
          dropped, instruments_updated, outcome, exit, hist, started_at, pre,
          max_inactivity_duration, counted_at, snap, solo_panel, ncalls,
          call, solo_filter, added, mount, mcall>>

(* ------------------------------ bounds -------------------------------- *)

\* The last instant the clock reaches.
MaxClock == 3

\* The number of messages sent over a run.
MaxSent == 2

\* The values of max a process call is given: up to the number of messages.
Maxes == 0..MaxSent

\* The values of max_age of a DropOlderThan strategy: within the clock's range.
Ages == 0..(MaxClock - 1)

Labels == {"A", "B"}

(* ------------------------------ options ------------------------------- *)

None == <<>>

Some(x) == <<x>>

(* ---------------------------- LabelFilter ----------------------------- *)

AcceptAll == [kind |-> "AcceptAll", labels |-> <<>>]

AcceptNone == [kind |-> "AcceptNone", labels |-> <<>>]

One(a) == [kind |-> "One", labels |-> <<a>>]

\* A variant in which every filter with a label accepts every label.
Accepts_AnyLabel(f, label) == f.kind # "AcceptNone"

\* LabelFilter::accepts: the fixed-arity states compare the label with each
\* stored field, Many searches its vector.
Accepts(f, label) ==
    CASE f.kind = "AcceptNone" -> FALSE
      [] f.kind = "AcceptAll" -> TRUE
      [] OTHER -> \E i \in 1..Len(f.labels) : label = f.labels[i]

\* A variant whose promotion to Many forgets the label being added.
AddLabel_PromotionDropsLabel(f, label) ==
    CASE f.kind = "AcceptAll" -> AcceptAll
      [] f.kind = "AcceptNone" -> One(label)
      [] f.kind = "One" -> [kind |-> "Two", labels |-> Append(f.labels, label)]
      [] f.kind = "Two" -> [kind |-> "Three", labels |-> Append(f.labels, label)]
      [] f.kind = "Three" -> [kind |-> "Four", labels |-> Append(f.labels, label)]
      [] f.kind = "Four" -> [kind |-> "Five", labels |-> Append(f.labels, label)]
      [] f.kind = "Five" -> [kind |-> "Many", labels |-> f.labels]
      [] f.kind = "Many" -> [kind |-> "Many", labels |-> Append(f.labels, label)]

\* A variant whose promotion to Many starts the vector anew.
AddLabel_PromotionStartsAnew(f, label) ==
    CASE f.kind = "AcceptAll" -> AcceptAll
      [] f.kind = "AcceptNone" -> One(label)
      [] f.kind = "One" -> [kind |-> "Two", labels |-> Append(f.labels, label)]
      [] f.kind = "Two" -> [kind |-> "Three", labels |-> Append(f.labels, label)]
      [] f.kind = "Three" -> [kind |-> "Four", labels |-> Append(f.labels, label)]
      [] f.kind = "Four" -> [kind |-> "Five", labels |-> Append(f.labels, label)]
      [] f.kind = "Five" -> [kind |-> "Many", labels |-> <<label>>]
      [] f.kind = "Many" -> [kind |-> "Many", labels |-> Append(f.labels, label)]

\* LabelFilter::add_label: the state that replaces *self.  The fields of
\* the fixed-arity states and the vector of Many are kept in order, the new
\* label last; nothing is compared, so a label may be stored twice.
AddLabel(f, label) ==
    CASE f.kind = "AcceptAll" -> AcceptAll
      [] f.kind = "AcceptNone" -> One(label)
      [] f.kind = "One" -> [kind |-> "Two", labels |-> Append(f.labels, label)]
      [] f.kind = "Two" -> [kind |-> "Three", labels |-> Append(f.labels, label)]
      [] f.kind = "Three" -> [kind |-> "Four", labels |-> Append(f.labels, label)]
      [] f.kind = "Four" -> [kind |-> "Five", labels |-> Append(f.labels, label)]
      [] f.kind = "Five" -> [kind |-> "Many", labels |-> Append(f.labels, label)]
      [] f.kind = "Many" -> [kind |-> "Many", labels |-> Append(f.labels, label)]

(* ------------------------------- Update ------------------------------- *)

\* Update::Observations(u64, Instant)
Observations(count, timestamp) ==
    [kind |-> "Observations", count |-> count, timestamp |-> timestamp]

\* Update::Observation(Instant)
Observation(timestamp) == [kind |-> "Observation", timestamp |-> timestamp]

\* Update::ObservationWithValue(ObservedValue, Instant)
ObservationWithValue(value, timestamp) ==
    [kind |-> "ObservationWithValue", value |-> value, timestamp |-> timestamp]

\* From<Observation<T>> for LabelAndUpdate<T>: the label, moved out of the
\* observation, and the update.
LabelAndUpdate(obs) ==
    CASE obs.kind = "Observed" ->
            <<obs.label, Observations(obs.count, obs.timestamp)>>
      [] obs.kind = "ObservedOne" ->
            <<obs.label, Observation(obs.timestamp)>>
      [] obs.kind = "ObservedOneValue" ->
            <<obs.label, ObservationWithValue(obs.value, obs.timestamp)>>

\* A variant that turns many occurrences into one.
BorrowedLabelAndUpdate_OneForMany(obs) ==
    CASE obs.kind = "Observed" ->
            <<obs.label, Observation(obs.timestamp)>>
      [] obs.kind = "ObservedOne" ->
            <<obs.label, Observation(obs.timestamp)>>
      [] obs.kind = "ObservedOneValue" ->
            <<obs.label, ObservationWithValue(obs.value, obs.timestamp)>>

\* From<&Observation<T>> for BorrowedLabelAndUpdate<T>: the label, by
\* reference, and the update built from copies of the payload.
BorrowedLabelAndUpdate(obs) ==
    CASE obs.kind = "Observed" ->
            <<obs.label, Observations(obs.count, obs.timestamp)>>
      [] obs.kind = "ObservedOne" ->
            <<obs.label, Observation(obs.timestamp)>>
      [] obs.kind = "ObservedOneValue" ->
            <<obs.label, ObservationWithValue(obs.value, obs.timestamp)>>

(* ---------------------------- instruments ----------------------------- *)

\* An instrument behind its adapter: the number of updates it has applied.
Instrument(kind) == [kind |-> kind, updates |-> 0]

\* InstrumentAdapter::handle_observation: the update is applied and one
\* instrument reports a change.
InstrumentHandle(i, obs) ==
    [self |-> [i EXCEPT !.updates = @ + 1], n |-> 1]

RECURSIVE SumSeq(_)
\* instruments_updated += ... for each element, in order
SumSeq(ns) == IF ns = <<>> THEN 0 ELSE Head(ns) + SumSeq(Tail(ns))

\* What iter_mut().for_each(|x| instruments_updated += ..) leaves behind,
\* given the result rs[i] of each call: the elements as updated, what each
\* call returned (in call order) and the sum.
Collect(rs) ==
    [self |-> [i \in DOMAIN rs |-> rs[i].self],
     rets |-> [i \in DOMAIN rs |-> rs[i].n],
     n |-> SumSeq([i \in DOMAIN rs |-> rs[i].n])]

\* iter_mut().for_each(|x| instruments_updated += x.handle_observation(..))
\* over an Option or a Vec of instruments.
InstrumentsHandle(is, obs) ==
    Collect([i \in 1..Len(is) |-> InstrumentHandle(is[i], obs)])

(* ------------------------------- Panel -------------------------------- *)

\* Panel::new / Panel::named at instant now.  id tells the handlers of a
\* run apart, as for cockpits.
NewPanelAt(filter, name, id, now) ==
    [label_filter |-> filter, name |-> name, id |-> id,
     counter |-> None, gauge |-> None, meter |-> None, histogram |-> None,
     panels |-> <<>>, handlers |-> <<>>, snapshooters |-> <<>>,
     last_update |-> now, max_inactivity_duration |-> None]

\* A panel built at instant 0, before the clock of a run starts.
NewPanel(filter, name, id) == NewPanelAt(filter, name, id, 0)

\* A variant that puts the new counter into the slot whatever it holds, as
\* the deprecated set_counter does.
WithCounter_Overwrite(p) == [p EXCEPT !.counter = Some(Instrument("counter"))]

\* Panel::add_counter on a panel
WithCounter(p) ==
    IF p.counter = None THEN [p EXCEPT !.counter = Some(Instrument("counter"))]
    ELSE [p EXCEPT !.handlers = Append(@, Instrument("counter"))]

\* Panel::add_gauge
WithGauge(p) ==
    IF p.gauge = None THEN [p EXCEPT !.gauge = Some(Instrument("gauge"))]
    ELSE [p EXCEPT !.handlers = Append(@, Instrument("gauge"))]

\* Panel::add_meter
WithMeter(p) ==
    IF p.meter = None THEN [p EXCEPT !.meter = Some(Instrument("meter"))]
    ELSE [p EXCEPT !.handlers = Append(@, Instrument("meter"))]

\* Panel::add_histogram
WithHistogram(p) ==
    IF p.histogram = None
    THEN [p EXCEPT !.histogram = Some(Instrument("histogram"))]
    ELSE [p EXCEPT !.handlers = Append(@, Instrument("histogram"))]

\* Panel::add_panel
WithPanel(p, child) == [p EXCEPT !.panels = Append(@, child)]

\* Panel::add_snapshooter; a snapshooter is known by the name of the one
\* item it writes.
WithSnapshooter(p, sn) == [p EXCEPT !.snapshooters = Append(@, sn)]

\* Panel::set_inactivity_limit
WithInactivityLimit(p, d) == [p EXCEPT !.max_inactivity_duration = Some(d)]

RECURSIVE PanelHandle(_, _)

\* iter_mut().for_each(|x| instruments_updated += x.handle_observation(..))
\* over a Vec of panels; rets lists what each call returned, in call order.
PanelsHandle(ps, obs) ==
    Collect([i \in 1..Len(ps) |-> PanelHandle(ps[i], obs)])

\* One entry per handle_observation call made on a part, in call order.
Calls(part, rets) ==
    [i \in 1..Len(rets) |-> [part |-> part, idx |-> i, n |-> rets[i]]]

\* A variant that serves the child panels before the slots and leaves their
\* counts out of the sum.
PanelHandled_PanelsFirst(p, c, g, m, h, ps, hs) ==
    [self |-> [p EXCEPT !.counter = c.self, !.gauge = g.self,
                        !.meter = m.self, !.histogram = h.self,
                        !.panels = ps.self, !.handlers = hs.self],
     n |-> c.n + g.n + m.n + h.n + hs.n,
     trace |-> Calls("panel", ps.rets) \o Calls("counter", c.rets)
               \o Calls("gauge", g.rets) \o Calls("meter", m.rets)
               \o Calls("histogram", h.rets) \o Calls("handler", hs.rets)]

\* The panel after its slots, child panels and handlers have handled an
\* observation, the sum of what they returned, and the calls made, in order.
PanelHandled(p, c, g, m, h, ps, hs) ==
    [self |-> [p EXCEPT !.counter = c.self, !.gauge = g.self,
                        !.meter = m.self, !.histogram = h.self,
                        !.panels = ps.self, !.handlers = hs.self],
     n |-> c.n + g.n + m.n + h.n + ps.n + hs.n,
     trace |-> Calls("counter", c.rets) \o Calls("gauge", g.rets)
               \o Calls("meter", m.rets) \o Calls("histogram", h.rets)
               \o Calls("panel", ps.rets) \o Calls("handler", hs.rets)]

\* A variant without the early return: the parts of a panel whose filter
\* rejects the label are served all the same.
PanelHandle_NoShortCircuit(p, obs) ==
    PanelHandled(p, InstrumentsHandle(p.counter, obs),
                    InstrumentsHandle(p.gauge, obs),
                    InstrumentsHandle(p.meter, obs),
                    InstrumentsHandle(p.histogram, obs),
                    PanelsHandle(p.panels, obs),
                    InstrumentsHandle(p.handlers, obs))

\* Panel::handle_observation
PanelHandle(p, obs) ==
    IF ~Accepts(p.label_filter, obs.label)
    THEN [self |-> p, n |-> 0, trace |-> <<>>]
    ELSE PanelHandled(p, InstrumentsHandle(p.counter, obs),
                         InstrumentsHandle(p.gauge, obs),
                         InstrumentsHandle(p.meter, obs),
                         InstrumentsHandle(p.histogram, obs),
                         PanelsHandle(p.panels, obs),
                         InstrumentsHandle(p.handlers, obs))

(* ----------------------------- snapshots ------------------------------ *)

\* One entry of Snapshot.items: a name and an ItemKind (Boolean, Snapshot,
\* or the value an instrument or snapshooter writes).
Item(name, kind, value) == [kind |-> kind, name |-> name, value |-> value]

InactiveItems ==
    <<Item("_inactive", "Boolean", TRUE), Item("_active", "Boolean", FALSE)>>

ActiveItems ==
    <<Item("_inactive", "Boolean", FALSE), Item("_active", "Boolean", TRUE)>>

RECURSIVE Flatten(_)
\* for_each(|x| x.put_snapshot(into, ..)): every element appends to into
Flatten(ss) == IF ss = <<>> THEN <<>> ELSE Head(ss) \o Flatten(Tail(ss))

\* put_snapshot of an instrument behind its adapter: one item with the
\* state of the instrument.
InstrumentPutSnapshot(i) == <<Item(i.kind, "Value", i.updates)>>

\* put_snapshot of a snapshooter: the one item it writes.
SnapshooterPutSnapshot(sn) == <<Item(sn, "Value", 0)>>

\* self.last_update.elapsed() > d
PanelInactive(last_update, now, d) == now - last_update > d

RECURSIVE PanelPutSnapshot(_, _)

\* A variant that writes the handlers right after the slots, before the
\* child panels and the snapshooters.
PanelContents_HandlersFirst(p, now) ==
    Flatten([i \in 1..Len(p.counter) |-> InstrumentPutSnapshot(p.counter[i])])
    \o Flatten([i \in 1..Len(p.gauge) |-> InstrumentPutSnapshot(p.gauge[i])])
    \o Flatten([i \in 1..Len(p.meter) |-> InstrumentPutSnapshot(p.meter[i])])
    \o Flatten([i \in 1..Len(p.histogram) |->
                   InstrumentPutSnapshot(p.histogram[i])])
    \o Flatten([i \in 1..Len(p.handlers) |->
                   InstrumentPutSnapshot(p.handlers[i])])
    \o Flatten([i \in 1..Len(p.panels) |-> PanelPutSnapshot(p.panels[i], now)])
    \o Flatten([i \in 1..Len(p.snapshooters) |->
                   SnapshooterPutSnapshot(p.snapshooters[i])])

\* Panel::put_values_into_snapshot, past the inactivity test: the slots, the
\* child panels, the snapshooters and the handlers.
PanelContents(p, now) ==
    Flatten([i \in 1..Len(p.counter) |-> InstrumentPutSnapshot(p.counter[i])])
    \o Flatten([i \in 1..Len(p.gauge) |-> InstrumentPutSnapshot(p.gauge[i])])
    \o Flatten([i \in 1..Len(p.meter) |-> InstrumentPutSnapshot(p.meter[i])])
    \o Flatten([i \in 1..Len(p.histogram) |->
                   InstrumentPutSnapshot(p.histogram[i])])
    \o Flatten([i \in 1..Len(p.panels) |-> PanelPutSnapshot(p.panels[i], now)])
    \o Flatten([i \in 1..Len(p.snapshooters) |->
                   SnapshooterPutSnapshot(p.snapshooters[i])])
    \o Flatten([i \in 1..Len(p.handlers) |->
                   InstrumentPutSnapshot(p.handlers[i])])

\* Panel::put_values_into_snapshot (no title and no description are set)
PanelPutValues(p, now) ==
    IF p.max_inactivity_duration = None THEN PanelContents(p, now)
    ELSE IF PanelInactive(p.last_update, now, p.max_inactivity_duration[1])
    THEN InactiveItems
    ELSE ActiveItems \o PanelContents(p, now)

\* Panel::put_snapshot: a named panel writes its values into a level of
\* its own.
PanelPutSnapshot(p, now) ==
    IF p.name = None THEN PanelPutValues(p, now)
    ELSE <<Item(p.name[1], "Snapshot", PanelPutValues(p, now))>>

(* ------------------------------ Cockpit ------------------------------- *)

\* A cockpit: an optional name and its panels.  id tells the cockpits of a
\* run apart: 0 for one wired before the run, else the send index of the
\* message that carries it.
NewCockpit(name, panels, id) == [name |-> name, panels |-> panels, id |-> id]

\* Cockpit::get_name
GetName(c) == c.name

\* Cockpit::add_panel
CockpitAddPanel(c, panel) == [c EXCEPT !.panels = Append(@, panel)]

\* The cockpit after its panels have handled an observation, and the sum of
\* what they returned.
CockpitHandled(c, ps) == [self |-> [c EXCEPT !.panels = ps.self], n |-> ps.n]

\* Cockpit::handle_observation: every panel of the cockpit handles it.
CockpitHandle(c, obs) == CockpitHandled(c, PanelsHandle(c.panels, obs))

\* self.cockpits.iter_mut().for_each(|c| instruments_updated += ..)
CockpitsHandle(cs, obs) ==
    Collect([i \in 1..Len(cs) |-> CockpitHandle(cs[i], obs)])

\* Cockpit::put_snapshot: a named cockpit writes the snapshots of its panels
\* into a level of its own.
CockpitPutSnapshot(c, now) ==
    IF c.name = None
    THEN Flatten([i \in 1..Len(c.panels) |-> PanelPutSnapshot(c.panels[i], now)])
    ELSE <<Item(c.name[1], "Snapshot",
                Flatten([i \in 1..Len(c.panels) |->
                            PanelPutSnapshot(c.panels[i], now)]))>>

(* -------------------- TelemetryProcessor snapshots -------------------- *)

\* The fields of a TelemetryProcessor that put_snapshot reads.
Processor(name, cs, hs, sns, last, limit) ==
    [name |-> name, cockpits |-> cs, handlers |-> hs, snapshooters |-> sns,
     last_activity_at |-> last, max_inactivity_duration |-> limit]

\* self.last_activity_at.elapsed() > d
ProcessorInactive(last, now, d) == now - last > d

\* TelemetryProcessor::put_values_into_snapshot, past the inactivity test:
\* the cockpits, the handlers and the snapshooters.
ProcessorContents(p, now) ==
    Flatten([i \in 1..Len(p.cockpits) |-> CockpitPutSnapshot(p.cockpits[i], now)])
    \o Flatten([i \in 1..Len(p.handlers) |->
                   PanelPutSnapshot(p.handlers[i], now)])
    \o Flatten([i \in 1..Len(p.snapshooters) |->
                   SnapshooterPutSnapshot(p.snapshooters[i])])

\* A variant that returns after the flags of an active processor too.
ProcessorPutValues_FlagsOnly(p, now) ==
    IF p.max_inactivity_duration = None THEN ProcessorContents(p, now)
    ELSE IF ProcessorInactive(p.last_activity_at, now,
                              p.max_inactivity_duration[1])
    THEN InactiveItems
    ELSE ActiveItems

\* TelemetryProcessor::put_values_into_snapshot (no title, no description)
ProcessorPutValues(p, now) ==
    IF p.max_inactivity_duration = None THEN ProcessorContents(p, now)
    ELSE IF ProcessorInactive(p.last_activity_at, now,
                              p.max_inactivity_duration[1])
    THEN InactiveItems
    ELSE ActiveItems \o ProcessorContents(p, now)

\* TelemetryProcessor::put_snapshot: a named processor writes its values
\* into a level of its own.
ProcessorPutSnapshot(p, now) ==
    IF p.name = None THEN ProcessorPutValues(p, now)
    ELSE <<Item(p.name[1], "Snapshot", ProcessorPutValues(p, now))>>

(* ----------------------- messages and strategies ---------------------- *)

\* Observation::ObservedOne { label, timestamp }
ObservedOne(label, timestamp) ==
    [kind |-> "ObservedOne", label |-> label, timestamp |-> timestamp]

\* Observation::Observed { label, count, timestamp }
Observed(label, count, timestamp) ==
    [kind |-> "Observed", label |-> label, count |-> count,
     timestamp |-> timestamp]

\* Observation::ObservedOneValue { label, value, timestamp }
ObservedOneValue(label, value, timestamp) ==
    [kind |-> "ObservedOneValue", label |-> label, value |-> value,
     timestamp |-> timestamp]

\* TelemetryMessage::Observation; seq is the send index of the message.
ObservationMsg(obs, seq) == [type |-> "Observation", obs |-> obs, seq |-> seq]

\* TelemetryMessage::AddCockpit
AddCockpitMsg(c, seq) == [type |-> "AddCockpit", cockpit |-> c, seq |-> seq]

\* TelemetryMessage::AddHandler
AddHandlerMsg(h, seq) == [type |-> "AddHandler", handler |-> h, seq |-> seq]

\* TelemetryMessage::AddPanel
AddPanelMsg(cockpit_name, panel, seq) ==
    [type |-> "AddPanel", cockpit_name |-> cockpit_name, panel |-> panel,
     seq |-> seq]

ProcessAll == [kind |-> "ProcessAll", max_age |-> 0]

DropAll == [kind |-> "DropAll", max_age |-> 0]

DropOlderThan(max_age) == [kind |-> "DropOlderThan", max_age |-> max_age]

\* ProcessingOutcome::default
DefaultOutcome == [processed |-> 0, dropped |-> 0, instruments_updated |-> 0]

\* A variant that overlooks dropped observations.
SomethingHappened_ProcessedOnly(o) == o.processed > 0

\* A variant for which every call counts as activity.
SomethingHappened_Always(o) == TRUE

\* ProcessingOutcome::something_happened
SomethingHappened(o) == o.processed > 0 \/ o.dropped > 0

\* Instant::now() - max_age panics when the result is not representable.
DeciderPanics(s, now) == s.kind = "DropOlderThan" /\ s.max_age > now

\* ProcessingStrategy::decider
Decider(s, now) ==
    CASE s.kind = "ProcessAll" -> [kind |-> "ProcessAll", deadline |-> 0]
      [] s.kind = "DropAll" -> [kind |-> "DropAll", deadline |-> 0]
      [] s.kind = "DropOlderThan" ->
            [kind |-> "DropBeforeDeadline", deadline |-> now - s.max_age]

\* A bug: an observation exactly at the deadline is admitted.
ShouldBeProcessed_AtDeadline(d, obs) ==
    CASE d.kind = "ProcessAll" -> TRUE
      [] d.kind = "DropAll" -> FALSE
      [] d.kind = "DropBeforeDeadline" -> obs.timestamp >= d.deadline

\* ProcessingDecider::should_be_processed
ShouldBeProcessed(d, obs) ==
    CASE d.kind = "ProcessAll" -> TRUE
      [] d.kind = "DropAll" -> FALSE
      [] d.kind = "DropBeforeDeadline" -> obs.timestamp > d.deadline

(* ------------------- TelemetryProcessor::process ---------------------- *)

\* One entry of a dispatch record per handle_observation call, in call order.
Tag(kind, rets) == [i \in 1..Len(rets) |-> [kind |-> kind, idx |-> i, n |-> rets[i]]]

\* A bug: the handlers are served before the cockpits.
Dispatched_HandlersFirst(c, h) ==
    [cockpits |-> c.self, handlers |-> h.self,
     processed |-> 1, dropped |-> 0, updated |-> c.n + h.n,
     admitted |-> TRUE,
     targets |-> Tag("handler", h.rets) \o Tag("cockpit", c.rets)]

\* The effect of an admitted observation, given what the cockpits (c) and
\* then the handlers (h) did with it.
Dispatched(c, h) ==
    [cockpits |-> c.self, handlers |-> h.self,
     processed |-> 1, dropped |-> 0, updated |-> c.n + h.n,
     admitted |-> TRUE,
     targets |-> Tag("cockpit", c.rets) \o Tag("handler", h.rets)]

\* An admitted observation goes to every cockpit, then to every handler.
Dispatch(cs, hs, obs) ==
    Dispatched(CockpitsHandle(cs, obs), PanelsHandle(hs, obs))

\* A bug: the deadline is computed anew for each message.
LoopDecider_PerMessage == Decider(strategy, clock)

\* The decider the loop consults: the local computed before the loop.
LoopDecider == decider

\* A bug: a dropped observation is counted as dropped and dispatched anyway.
HandleObservation_DispatchDropped(obs, dec, cs, hs) ==
    IF ShouldBeProcessed(dec, obs)
    THEN Dispatch(cs, hs, obs)
    ELSE [Dispatch(cs, hs, obs) EXCEPT !.processed = 0, !.dropped = 1,
                                       !.admitted = FALSE, !.targets = <<>>]

\* A bug: the returns of the handlers are not added to instruments_updated.
HandleObservation_CockpitsCounted(obs, dec, cs, hs) ==
    IF ShouldBeProcessed(dec, obs)
    THEN [Dispatch(cs, hs, obs) EXCEPT
            !.updated = SumSeq([i \in 1..Len(cs) |-> CockpitHandle(cs[i], obs).n])]
    ELSE [cockpits |-> cs, handlers |-> hs,
          processed |-> 0, dropped |-> 1, updated |-> 0,
          admitted |-> FALSE, targets |-> <<>>]

\* Ok(TelemetryMessage::Observation(obs))
HandleObservation(obs, dec, cs, hs) ==
    IF ShouldBeProcessed(dec, obs)
    THEN Dispatch(cs, hs, obs)
    ELSE [cockpits |-> cs, handlers |-> hs,
          processed |-> 0, dropped |-> 1, updated |-> 0,
          admitted |-> FALSE, targets |-> <<>>]

\* A bug: the drop policy is applied to a structural message.
HandleAddCockpit_Decided(c, dec, cs, hs) ==
    IF dec.kind = "ProcessAll"
    THEN [cockpits |-> Append(cs, c), handlers |-> hs,
          processed |-> 1, dropped |-> 0, updated |-> 0,
          admitted |-> TRUE, targets |-> <<>>]
    ELSE [cockpits |-> cs, handlers |-> hs,
          processed |-> 0, dropped |-> 1, updated |-> 0,
          admitted |-> FALSE, targets |-> <<>>]

\* Ok(TelemetryMessage::AddCockpit(c))
HandleAddCockpit(c, dec, cs, hs) ==
    [cockpits |-> Append(cs, c), handlers |-> hs,
     processed |-> 1, dropped |-> 0, updated |-> 0,
     admitted |-> TRUE, targets |-> <<>>]

\* Ok(TelemetryMessage::AddHandler(h))
HandleAddHandler(h, dec, cs, hs) ==
    [cockpits |-> cs, handlers |-> Append(hs, h),
     processed |-> 1, dropped |-> 0, updated |-> 0,
     admitted |-> TRUE, targets |-> <<>>]

\* A bug: the last cockpit of that name is taken.
FindCockpit_Last(cs, cockpit_name) ==
    LET hits == {i \in 1..Len(cs) : GetName(cs[i]) = Some(cockpit_name)}
    IN IF hits = {} THEN 0
       ELSE CHOOSE i \in hits : \A j \in hits : i >= j

\* self.cockpits.iter_mut().find(|c| c.get_name() == Some(&cockpit_name)):
\* the index of the first cockpit with that name, or 0.
FindCockpit(cs, cockpit_name) ==
    LET hits == {i \in 1..Len(cs) : GetName(cs[i]) = Some(cockpit_name)}
    IN IF hits = {} THEN 0
       ELSE CHOOSE i \in hits : \A j \in hits : i <= j

\* Ok(TelemetryMessage::AddPanel { cockpit_name, panel })
HandleAddPanel(cockpit_name, panel, dec, cs, hs) ==
    LET i == FindCockpit(cs, cockpit_name)
    IN [cockpits |-> IF i = 0 THEN cs
                     ELSE [cs EXCEPT ![i] = CockpitAddPanel(@, panel)],
        handlers |-> hs,
        processed |-> 1, dropped |-> 0, updated |-> 0,
        admitted |-> TRUE, targets |-> <<>>]

\* The match on a received message.
HandleMessage(msg, dec, cs, hs) ==
    CASE msg.type = "Observation" -> HandleObservation(msg.obs, dec, cs, hs)
      [] msg.type = "AddCockpit" -> HandleAddCockpit(msg.cockpit, dec, cs, hs)
      [] msg.type = "AddHandler" -> HandleAddHandler(msg.handler, dec, cs, hs)
      [] msg.type = "AddPanel" ->
            HandleAddPanel(msg.cockpit_name, msg.panel, dec, cs, hs)

\* A bug: the newest message is received first.
TryRecv_Newest(q, alive) ==
    IF q # <<>>
    THEN [tag |-> "Ok", msg |-> q[Len(q)], rest |-> SubSeq(q, 1, Len(q) - 1)]
    ELSE IF alive THEN [tag |-> "Empty", msg |-> <<>>, rest |-> q]
    ELSE [tag |-> "Disconnected", msg |-> <<>>, rest |-> q]

\* A variant that reports Disconnected as soon as no sender exists, whatever
\* the channel still holds.
TryRecv_DisconnectFirst(q, alive) ==
    IF ~alive THEN [tag |-> "Disconnected", msg |-> <<>>, rest |-> q]
    ELSE IF q # <<>> THEN [tag |-> "Ok", msg |-> Head(q), rest |-> Tail(q)]
    ELSE [tag |-> "Empty", msg |-> <<>>, rest |-> q]

\* self.receiver.try_recv(): the oldest message of the channel; Empty when
\* there is none and a sender exists, Disconnected when there is none and no
\* sender exists.
TryRecv(q, alive) ==
    IF q # <<>> THEN [tag |-> "Ok", msg |-> Head(q), rest |-> Tail(q)]
    ELSE IF alive THEN [tag |-> "Empty", msg |-> <<>>, rest |-> q]
    ELSE [tag |-> "Disconnected", msg |-> <<>>, rest |-> q]

\* A bug: one receive attempt too many.
LoopGuard_Inclusive(n, m) == n <= m

\* A variant that tests the bound after the first attempt only, as a
\* do-while loop would.
LoopGuard_AtLeastOnce(n, m) == n = 0 \/ n < m

\* while num_received < max
LoopGuard(n, m) == n < m

\* A bug: the disconnected flag is not consulted.
EarlyReturn_Never(disconnected) == FALSE

\* if self.is_disconnected { return ProcessingOutcome::default(); }
EarlyReturn(disconnected) == disconnected

(* ------------------------- the inputs of a run ------------------------ *)

PanelA == WithCounter(NewPanel(One("A"), Some("pa"), 0))

PanelB == WithCounter(NewPanel(One("B"), Some("pb"), 0))

\* Panel::accept_all() with a counter: a handler without a name.
HandlerAll(id) == WithCounter(NewPanel(AcceptAll, None, id))

CockpitC1(id) == NewCockpit(Some("c1"), <<PanelA>>, id)

CockpitAnon(id) == NewCockpit(None, <<PanelA>>, id)

\* A run is one of two workloads.  In a "telemetry" run the producers send
\* observations while time passes.  A "wiring" run is short enough for the
\* clock to stand still, and the producers send observations and structural
\* messages.
Workloads == {"telemetry", "wiring"}

\* The runs short enough for the clock to stand still: the "wiring" run of
\* a processor and the "shutdown" run of a mount, in which the transmitters
\* of its processors are dropped.
Short == {"wiring", "shutdown"}

\* What a transmitter may send at instant now as the message number seq.
Messages(w, now, seq) ==
    {ObservationMsg(ObservedOne(l, now), seq) : l \in Labels}
    \cup IF w = "wiring"
         THEN {AddCockpitMsg(CockpitC1(seq), seq),
               AddHandlerMsg(HandlerAll(seq), seq),
               AddPanelMsg("c1", PanelB, seq), AddPanelMsg("zz", PanelB, seq)}
         ELSE {}

Strategies ==
    {ProcessAll, DropAll} \cup {DropOlderThan(d) : d \in Ages}

\* The cockpits the processor is wired with before the run.
InitCockpits == <<CockpitAnon(0), CockpitC1(0)>>

(* ------------------------------ actions ------------------------------- *)

\* TelemetryProcessor::new_pair, then the cockpits are wired in.
NewPair ==
    /\ clock = 1
    /\ txAlive = TRUE
    /\ queue = <<>>
    /\ nsent = 0
    /\ cockpits = InitCockpits
    /\ handlers = <<>>
    /\ last_activity_at = clock
    /\ is_disconnected = FALSE
    /\ pc = "idle"
    /\ max = 0
    /\ strategy = ProcessAll
    /\ decider = Decider(ProcessAll, 0)
    /\ num_received = 0
    /\ processed = 0
    /\ dropped = 0
    /\ instruments_updated = 0
    /\ outcome = DefaultOutcome
    /\ exit = "none"
    /\ hist = <<>>
    /\ started_at = 0
    /\ pre = <<>>
    /\ counted_at = 0
    /\ snap = None

\* No panel, filter or mount is used on its own in this run.
NoBench ==
    /\ solo_panel = None
    /\ ncalls = 0
    /\ call = None
    /\ solo_filter = None
    /\ added = <<>>
    /\ mount = None
    /\ mcall = None

Init ==
    /\ workload \in Workloads
    /\ NewPair
    /\ max_inactivity_duration = None
    /\ NoBench

procFields == <<cockpits, handlers, last_activity_at, is_disconnected>>

locals == <<max, strategy, decider, num_received, processed, dropped,
            instruments_updated>>

ghosts == <<hist, started_at, pre>>

\* The components used on their own.
bench == <<solo_panel, ncalls, call, solo_filter, added, mount, mcall>>

\* Time passes.
Tick ==
    /\ workload \notin Short
    /\ clock < MaxClock
    /\ clock' = clock + 1
    /\ snap' = None
    /\ UNCHANGED <<workload, txAlive, queue, nsent, procFields, pc, locals,
                   outcome, exit, ghosts, max_inactivity_duration, counted_at,
                   bench>>

\* TelemetryTransmitter: a producer sends a message; the send never blocks.
Send ==
    /\ txAlive
    /\ nsent < MaxSent
    /\ nsent' = nsent + 1
    /\ \E msg \in Messages(workload, clock, nsent + 1) :
          queue' = Append(queue, msg)
    /\ snap' = None
    /\ UNCHANGED <<workload, clock, txAlive, procFields, pc, locals, outcome, exit,
                   ghosts, max_inactivity_duration, counted_at, bench>>

\* The last TelemetryTransmitter is dropped.
DropTransmitters ==
    /\ txAlive
    /\ txAlive' = FALSE
    /\ snap' = None
    /\ UNCHANGED <<workload, clock, queue, nsent, procFields, pc, locals,
                   outcome, exit, ghosts, max_inactivity_duration, counted_at,
                   bench>>

\* process(m, s) is entered: the early return of a disconnected processor,
\* or the locals and the decider are set up.
ProcessCall ==
    /\ pc = "idle"
    /\ \E m \in Maxes, s \in Strategies :
          IF EarlyReturn(is_disconnected)
          THEN /\ outcome' = DefaultOutcome
               /\ exit' = "early"
               /\ hist' = <<>>
               /\ UNCHANGED <<pc, locals, started_at, pre>>
          ELSE IF DeciderPanics(s, clock)
          THEN /\ pc' = "panicked"
               /\ exit' = "panic"
               /\ hist' = <<>>
               /\ UNCHANGED <<outcome, locals, started_at, pre>>
          ELSE    /\ pc' = "loop"
                  /\ max' = m
                  /\ strategy' = s
                  /\ decider' = Decider(s, clock)
                  /\ num_received' = 0
                  /\ processed' = 0
                  /\ dropped' = 0
                  /\ instruments_updated' = 0
                  /\ hist' = <<>>
                  /\ started_at' = clock
                  /\ pre' = <<[cockpits |-> cockpits, handlers |-> handlers,
                              last_activity_at |-> last_activity_at]>>
                  /\ UNCHANGED <<outcome, exit>>
    /\ snap' = None
    /\ UNCHANGED <<workload, clock, txAlive, queue, nsent, procFields,
                   max_inactivity_duration, counted_at, bench>>

\* The effect e of a received message on the processor and on the counters
\* of the call.
Apply(msg, e) ==
    /\ cockpits' = e.cockpits
    /\ handlers' = e.handlers
    /\ processed' = processed + e.processed
    /\ dropped' = dropped + e.dropped
    /\ instruments_updated' = instruments_updated + e.updated
    /\ hist' = Append(hist, [msg |-> msg, admitted |-> e.admitted,
                             targets |-> e.targets])

\* One iteration of the drain loop.
ProcessStep ==
    /\ pc = "loop"
    /\ LoopGuard(num_received, max)
    /\ LET r == TryRecv(queue, txAlive)
       IN CASE r.tag = "Ok" ->
                 /\ queue' = r.rest
                 /\ Apply(r.msg, HandleMessage(r.msg, LoopDecider, cockpits,
                                               handlers))
                 /\ num_received' = num_received + 1
                 /\ UNCHANGED <<is_disconnected, pc>>
            [] r.tag = "Empty" ->
                 /\ num_received' = num_received + 1
                 /\ UNCHANGED <<queue, cockpits, handlers, processed, dropped,
                                instruments_updated, hist, is_disconnected, pc>>
            [] r.tag = "Disconnected" ->
                 /\ is_disconnected' = TRUE
                 /\ pc' = "break"
                 /\ UNCHANGED <<queue, cockpits, handlers, processed, dropped,
                                instruments_updated, hist, num_received>>
    /\ snap' = None
    /\ UNCHANGED <<workload, clock, txAlive, nsent, last_activity_at, max, strategy,
                   decider, outcome, exit, started_at, pre,
                   max_inactivity_duration, counted_at, bench>>

\* The loop is left: the outcome is built, last_activity_at refreshed if
\* something happened, and the call returns.
ProcessReturn ==
    /\ \/ pc = "break"
       \/ pc = "loop" /\ ~LoopGuard(num_received, max)
    /\ LET o == [processed |-> processed, dropped |-> dropped,
                 instruments_updated |-> instruments_updated]
       IN /\ outcome' = o
          /\ last_activity_at' =
                IF SomethingHappened(o) THEN clock ELSE last_activity_at
    /\ pc' = "idle"
    /\ exit' = "normal"
    /\ max' = 0
    /\ strategy' = ProcessAll
    /\ decider' = Decider(ProcessAll, 0)
    /\ num_received' = 0
    /\ processed' = 0
    /\ dropped' = 0
    /\ instruments_updated' = 0
    /\ started_at' = 0
    /\ pre' = <<>>
    /\ counted_at' = IF processed + dropped > 0 THEN clock ELSE counted_at
    /\ snap' = None
    /\ UNCHANGED <<workload, clock, txAlive, queue, nsent, cockpits, handlers,
                   is_disconnected, hist, max_inactivity_duration, bench>>

Next ==
    \/ Tick
    \/ Send
    \/ DropTransmitters
    \/ ProcessCall
    \/ ProcessStep
    \/ ProcessReturn

Spec == Init /\ [][Next]_vars

\* A loop iteration as the control state of the call shows it: an attempt is
\* counted or the loop is broken.  Its steps are the ProcessStep steps, and it
\* is enabled exactly when ProcessStep is (whose match is total).
Iteration ==
    /\ pc = "loop"
    /\ LoopGuard(num_received, max)
    /\ \/ pc' = "loop" /\ num_received' = num_received + 1
       \/ pc' = "break" /\ num_received' = num_received

\* The thread that called process keeps running: a call under way performs
\* its next iteration, and its exit, in the end.
FairSpec ==
    Spec /\ WF_<<pc, num_received>>(Iteration) /\ WF_vars(ProcessReturn)

\* A process call with max > 0 is entered and reaches its loop, as the
\* control state of the call shows it.  Its steps are ProcessCall steps, and
\* it is enabled whenever the processor is idle and not disconnected.
CallWithWork ==
    /\ pc = "idle"
    /\ ~is_disconnected
    /\ pc' = "loop"
    /\ \E m \in Maxes \ {0} : max' = m

\* The owner of the processor also keeps calling process with max > 0, as
\* pollers do.
PolledSpec == FairSpec /\ SF_<<pc, max>>(CallWithWork)

(* ------------------- the processor and its snapshots ------------------ *)

\* The inactivity limits given to a component.
Limits == 0..(MaxClock - 2)

\* The processor of the run as put_snapshot reads it.  new_pair gives it a
\* name; it has no snapshooters.
Self ==
    Processor(Some("proc"), cockpits, handlers, <<>>, last_activity_at,
              max_inactivity_duration)

\* new_pair(..) and set_inactivity_limit(d), in a run of observations.
SnapInit ==
    /\ workload = "telemetry"
    /\ NewPair
    /\ max_inactivity_duration \in {Some(d) : d \in Limits}
    /\ NoBench

\* TelemetryProcessor::put_snapshot, between two process calls (it borrows
\* the processor that process borrows mutably).
PutSnapshot ==
    /\ pc = "idle"
    /\ snap' = Some([at |-> clock, items |-> ProcessorPutSnapshot(Self, clock)])
    /\ UNCHANGED <<workload, clock, txAlive, queue, nsent, procFields, pc,
                   locals, outcome, exit, ghosts, max_inactivity_duration,
                   counted_at, bench>>

SnapNext ==
    \/ Next
    \/ PutSnapshot

SnapSpec == SnapInit /\ [][SnapNext]_vars

(* --------------------------- ProcessorMount --------------------------- *)

\* A variant that keeps the outcome of the last processor only.
CombineWith_Overwrite(o, other) == other

\* ProcessingOutcome::combine_with
CombineWith(o, other) ==
    [processed |-> o.processed + other.processed,
     dropped |-> o.dropped + other.dropped,
     instruments_updated |-> o.instruments_updated + other.instruments_updated]

\* A processor owned by a mount: the fields of a TelemetryProcessor, the
\* channel it receives from and whether a transmitter of it is left.
Owned(name, cs, hs, last, limit) ==
    [name |-> name, cockpits |-> cs, handlers |-> hs, snapshooters |-> <<>>,
     last_activity_at |-> last, max_inactivity_duration |-> limit,
     is_disconnected |-> FALSE, queue |-> <<>>, alive |-> TRUE]

\* The locals of the process call of an owned processor when its loop
\* starts with the decider dec; taken lists the messages received and broke
\* tells that the loop was left by break.
Started(dec) ==
    [decider |-> dec, num_received |-> 0, processed |-> 0, dropped |-> 0,
     instruments_updated |-> 0, taken |-> <<>>, broke |-> FALSE]

\* The locals after the message msg with effect e has been received.
Received(st, msg, e) ==
    [st EXCEPT !.num_received = @ + 1,
               !.processed = @ + e.processed,
               !.dropped = @ + e.dropped,
               !.instruments_updated = @ + e.updated,
               !.taken = Append(@, msg)]

\* let outcome = ProcessingOutcome { processed, dropped, instruments_updated }
OutcomeOf(st) ==
    [processed |-> st.processed, dropped |-> st.dropped,
     instruments_updated |-> st.instruments_updated]

\* self.last_activity_at.elapsed() > d, with an off-by-one
MountInactive_AtLimit(last, now, d) == now - last >= d

\* self.last_activity_at.elapsed() > d
MountInactive(last, now, d) == now - last > d

\* put_snapshot of a mount reads the clock (Instant::elapsed) once for
\* every component with an inactivity limit that it reaches, one after the
\* other.  A reader is named <<0, 0>> for the mount, <<i, 0>> for processor
\* i and <<i, j>> for handler panel j of processor i.  (In the runs of a
\* mount the panels of the cockpits have no limit and the handler panels no
\* panels of their own.)
HandlerReaders(p, i) ==
    Flatten([j \in 1..Len(p.handlers) |->
                IF p.handlers[j].max_inactivity_duration = None THEN <<>>
                ELSE << <<i, j>> >>])

\* The readers of processor i, in the order of
\* TelemetryProcessor::put_values_into_snapshot.
ProcessorReaders(p, i) ==
    (IF p.max_inactivity_duration = None THEN <<>> ELSE << <<i, 0>> >>)
    \o HandlerReaders(p, i)

\* The readers of a mount, in the order of
\* ProcessorMount::put_values_into_snapshot.
Readers(mt) ==
    (IF mt.max_inactivity_duration = None THEN <<>> ELSE << <<0, 0>> >>)
    \o Flatten([i \in 1..Len(mt.processors) |->
                   ProcessorReaders(mt.processors[i], i)])

\* The instant reader c read, by the readings rd made so far in the order
\* of the readers (None for a reader that was not reached); 0 when it has
\* read none.
ReadAt(mt, rd, c) ==
    IF \E k \in 1..Len(rd) : Readers(mt)[k] = c /\ rd[k] # None
    THEN rd[CHOOSE k \in 1..Len(rd) : Readers(mt)[k] = c][1]
    ELSE 0

\* The instants the components of the mount read: the mount's, and for
\* each processor its own and those of its handler panels.
Readings(mt, rd) ==
    [mount |-> ReadAt(mt, rd, <<0, 0>>),
     processors |->
         [i \in 1..Len(mt.processors) |->
             [self |-> ReadAt(mt, rd, <<i, 0>>),
              handlers |-> [j \in 1..Len(mt.processors[i].handlers) |->
                               ReadAt(mt, rd, <<i, j>>)]]]]

\* TelemetryProcessor::put_values_into_snapshot, past the inactivity test,
\* for a processor of a mount; r holds the instants read.
OwnedContents(p, r) ==
    Flatten([i \in 1..Len(p.cockpits) |->
                CockpitPutSnapshot(p.cockpits[i], r.self)])
    \o Flatten([j \in 1..Len(p.handlers) |->
                   PanelPutSnapshot(p.handlers[j], r.handlers[j])])
    \o Flatten([i \in 1..Len(p.snapshooters) |->
                   SnapshooterPutSnapshot(p.snapshooters[i])])

\* TelemetryProcessor::put_values_into_snapshot for a processor of a mount.
OwnedPutValues(p, r) ==
    IF p.max_inactivity_duration = None THEN OwnedContents(p, r)
    ELSE IF ProcessorInactive(p.last_activity_at, r.self,
                              p.max_inactivity_duration[1])
    THEN InactiveItems
    ELSE ActiveItems \o OwnedContents(p, r)

\* TelemetryProcessor::put_snapshot for a processor of a mount.
OwnedPutSnapshot(p, r) ==
    IF p.name = None THEN OwnedPutValues(p, r)
    ELSE <<Item(p.name[1], "Snapshot", OwnedPutValues(p, r))>>

\* ProcessorMount::put_values_into_snapshot, past the inactivity test: the
\* processors and the snapshooters; rs holds the instants read.
MountContents(mt, rs) ==
    Flatten([i \in 1..Len(mt.processors) |->
                OwnedPutSnapshot(mt.processors[i], rs.processors[i])])
    \o Flatten([i \in 1..Len(mt.snapshooters) |->
                   SnapshooterPutSnapshot(mt.snapshooters[i])])

\* A variant that takes a mount without a limit for one with the limit 0.
MountPutValues_NoLimitIsZero(mt, rs) ==
    IF MountInactive(mt.last_activity_at, rs.mount,
                     IF mt.max_inactivity_duration = None THEN 0
                     ELSE mt.max_inactivity_duration[1])
    THEN InactiveItems
    ELSE ActiveItems \o MountContents(mt, rs)

\* ProcessorMount::put_values_into_snapshot (no title, no description)
MountPutValues(mt, rs) ==
    IF mt.max_inactivity_duration = None THEN MountContents(mt, rs)
    ELSE IF MountInactive(mt.last_activity_at, rs.mount,
                          mt.max_inactivity_duration[1])
    THEN InactiveItems
    ELSE ActiveItems \o MountContents(mt, rs)

\* ProcessorMount::put_snapshot
MountPutSnapshot(mt, rs) ==
    IF mt.name = None THEN MountPutValues(mt, rs)
    ELSE <<Item(mt.name[1], "Snapshot", MountPutValues(mt, rs))>>

\* The reader c is not reached: the mount, or the processor of a handler
\* panel, has returned after its flags, by the readings rd.
Unreached(mt, rd, c) ==
    \/ /\ mt.max_inactivity_duration # None
       /\ c # <<0, 0>>
       /\ MountInactive(mt.last_activity_at, ReadAt(mt, rd, <<0, 0>>),
                        mt.max_inactivity_duration[1])
    \/ /\ c[2] > 0
       /\ mt.processors[c[1]].max_inactivity_duration # None
       /\ ProcessorInactive(mt.processors[c[1]].last_activity_at,
                            ReadAt(mt, rd, <<c[1], 0>>),
                            mt.processors[c[1]].max_inactivity_duration[1])

RECURSIVE Reached(_, _)
\* The readings rd, with None for each of the next readers that is not
\* reached: the next reading is that of the next reader that is.
Reached(mt, rd) ==
    IF Len(rd) < Len(Readers(mt)) /\ Unreached(mt, rd, Readers(mt)[Len(rd) + 1])
    THEN Reached(mt, Append(rd, None))
    ELSE rd

\* A panel with a counter.
Leaf(f, name, now) == WithCounter(NewPanelAt(f, Some(name), 0, now))

\* A processor of the mount: a named cockpit and, as its handler, a panel
\* for every label with a counter; processor and panel have the limit d.
OwnedProcessor(name, now, d) ==
    Owned(Some(name), <<CockpitC1(0)>>,
          <<WithInactivityLimit(Leaf(AcceptAll, "h", now), d)>>, now, Some(d))

\* ProcessorMount::new, set_inactivity_limit, add_processor twice and
\* add_snapshooter.
NewMount(now, d) ==
    [name |-> Some("mount"),
     processors |-> <<OwnedProcessor("p1", now, d), OwnedProcessor("p2", now, d)>>,
     snapshooters |-> <<"sn">>,
     last_activity_at |-> now,
     max_inactivity_duration |-> Some(d)]

\* No process call is under way on the mount; ret is what the last one
\* returned.
MountIdle(ret) ==
    [pc |-> "idle", max |-> 0, strategy |-> ProcessAll,
     outcome |-> DefaultOutcome, idx |-> 1, log |-> <<>>, child |-> None,
     readings |-> <<>>, ret |-> ret]

\* A "mount" run sends observations to the processors of a mount while time
\* passes; a "shutdown" run is short, sends observations and may drop the
\* transmitters; in a "retire" run the transmitters are dropped while time
\* passes and nothing is sent.
MountWorkloads == {"mount", "shutdown", "retire"}

MountInit ==
    /\ workload \in MountWorkloads
    /\ NewPair
    /\ max_inactivity_duration = None
    /\ solo_panel = None
    /\ ncalls = 0
    /\ call = None
    /\ solo_filter = None
    /\ added = <<>>
    /\ mount \in {NewMount(clock, d) :
                      d \in IF workload \in Short THEN {0} ELSE Limits}
    /\ mcall = MountIdle(None)

\* Everything but the mount, its call, the clock, the send count and the
\* snapshot.
notMount == <<workload, txAlive, queue, procFields, pc, locals, outcome,
              exit, ghosts, max_inactivity_duration, counted_at, solo_panel,
              ncalls, call, solo_filter, added>>

\* A producer sends an observation to a processor of the mount.
MountSend ==
    /\ workload # "retire"
    /\ nsent < MaxSent
    /\ nsent' = nsent + 1
    /\ \E i \in 1..Len(mount.processors) :
          /\ mount.processors[i].alive
          /\ \E msg \in Messages(workload, clock, nsent + 1) :
                mount' = [mount EXCEPT !.processors[i].queue = Append(@, msg)]
    /\ snap' = None
    /\ UNCHANGED <<clock, mcall, notMount>>

\* The last transmitter of a processor of the mount is dropped.
MountDropTransmitters ==
    /\ workload \in {"shutdown", "retire"}
    /\ \E i \in 1..Len(mount.processors) :
          /\ mount.processors[i].alive
          /\ mount' = [mount EXCEPT !.processors[i].alive = FALSE]
    /\ snap' = None
    /\ UNCHANGED <<clock, nsent, mcall, notMount>>

\* ProcessorMount::process(m, s) is entered.
MountProcessCall ==
    /\ mcall.pc = "idle"
    /\ \E m \in Maxes, s \in Strategies :
          mcall' = [pc |-> "loop", max |-> m, strategy |-> s,
                    outcome |-> DefaultOutcome, idx |-> 1, log |-> <<>>,
                    child |-> None, readings |-> <<>>, ret |-> None]
    /\ snap' = None
    /\ UNCHANGED <<clock, nsent, mount, notMount>>

\* What the call of ProcessorMount::process keeps of the process call of
\* processor number mcall.idx: whether the processor was disconnected when
\* called, the decider it made, the messages it received and what it
\* returned.
LogEntry(disconnected, dec, taken, o, panic) ==
    [idx |-> mcall.idx, max |-> mcall.max, strategy |-> mcall.strategy,
     disconnected |-> disconnected, decider |-> dec, taken |-> taken,
     outcome |-> o, received |-> Len(taken), panic |-> panic]

\* outcome.combine_with(&processor.process(max, strategy)): the process
\* call of processor number mcall.idx is over, with the log entry e.
ChildReturned(e) ==
    [mcall EXCEPT !.pc = IF e.panic THEN "panicked" ELSE @,
                  !.outcome = CombineWith(@, e.outcome),
                  !.idx = @ + 1,
                  !.log = Append(@, e),
                  !.child = None]

\* A variant in which the processors of one call share a cutoff: a
\* processor decides with the decider the first processor of the call made,
\* if it made one.
MountChildEnter_SharedCutoff ==
    /\ mcall.pc = "loop"
    /\ mcall.idx <= Len(mount.processors)
    /\ mcall.child = None
    /\ IF EarlyReturn(mount.processors[mcall.idx].is_disconnected)
       THEN mcall' = ChildReturned(LogEntry(TRUE, None, <<>>, DefaultOutcome,
                                            FALSE))
       ELSE IF DeciderPanics(mcall.strategy, clock)
       THEN mcall' = ChildReturned(LogEntry(FALSE, None, <<>>, DefaultOutcome,
                                            TRUE))
       ELSE mcall' = [mcall EXCEPT
                         !.child = Some(Started(
                             IF mcall.log # <<>> /\ mcall.log[1].decider # None
                             THEN mcall.log[1].decider[1]
                             ELSE Decider(mcall.strategy, clock)))]
    /\ snap' = None
    /\ UNCHANGED <<clock, nsent, mount, notMount>>

\* for processor in self.processors.iter_mut(): process(max, strategy) of
\* the next processor is entered.  A disconnected processor returns at
\* once; otherwise the decider is made, at the current instant.
MountChildEnter ==
    /\ mcall.pc = "loop"
    /\ mcall.idx <= Len(mount.processors)
    /\ mcall.child = None
    /\ IF EarlyReturn(mount.processors[mcall.idx].is_disconnected)
       THEN mcall' = ChildReturned(LogEntry(TRUE, None, <<>>, DefaultOutcome,
                                            FALSE))
       ELSE IF DeciderPanics(mcall.strategy, clock)
       THEN mcall' = ChildReturned(LogEntry(FALSE, None, <<>>, DefaultOutcome,
                                            TRUE))
       ELSE mcall' = [mcall EXCEPT
                         !.child = Some(Started(Decider(mcall.strategy, clock)))]
    /\ snap' = None
    /\ UNCHANGED <<clock, nsent, mount, notMount>>

\* The processor under way has received msg, with the effect e, and rest is
\* left in its channel.
ChildReceived(msg, rest, e) ==
    /\ mount' = [mount EXCEPT !.processors[mcall.idx].queue = rest,
                              !.processors[mcall.idx].cockpits = e.cockpits,
                              !.processors[mcall.idx].handlers = e.handlers]
    /\ mcall' = [mcall EXCEPT !.child = Some(Received(mcall.child[1], msg, e))]

\* One iteration of the drain loop of the processor under way.
MountChildStep ==
    /\ mcall.pc = "loop"
    /\ mcall.child # None
    /\ ~mcall.child[1].broke
    /\ LoopGuard(mcall.child[1].num_received, mcall.max)
    /\ LET r == TryRecv(mount.processors[mcall.idx].queue,
                        mount.processors[mcall.idx].alive)
       IN CASE r.tag = "Ok" ->
                 ChildReceived(r.msg, r.rest,
                               HandleMessage(r.msg, mcall.child[1].decider,
                                             mount.processors[mcall.idx].cockpits,
                                             mount.processors[mcall.idx].handlers))
            [] r.tag = "Empty" ->
                 /\ mcall' = [mcall EXCEPT !.child[1].num_received = @ + 1]
                 /\ UNCHANGED mount
            [] r.tag = "Disconnected" ->
                 /\ mount' = [mount EXCEPT
                                 !.processors[mcall.idx].is_disconnected = TRUE]
                 /\ mcall' = [mcall EXCEPT !.child[1].broke = TRUE]
    /\ snap' = None
    /\ UNCHANGED <<clock, nsent, notMount>>

\* The loop of the processor under way is left: its outcome is built, its
\* last_activity_at refreshed, at the current instant, if something
\* happened, and its call returns.
MountChildReturn ==
    /\ mcall.pc = "loop"
    /\ mcall.child # None
    /\ \/ mcall.child[1].broke
       \/ ~LoopGuard(mcall.child[1].num_received, mcall.max)
    /\ mount' = [mount EXCEPT !.processors[mcall.idx].last_activity_at =
                     IF SomethingHappened(OutcomeOf(mcall.child[1]))
                     THEN clock ELSE @]
    /\ mcall' = ChildReturned(LogEntry(FALSE, Some(mcall.child[1].decider),
                                       mcall.child[1].taken,
                                       OutcomeOf(mcall.child[1]), FALSE))
    /\ snap' = None
    /\ UNCHANGED <<clock, nsent, notMount>>

\* The loop over the processors has ended: last_activity_at is refreshed if
\* something happened, and the outcome is returned.
MountProcessReturn ==
    /\ mcall.pc = "loop"
    /\ mcall.idx > Len(mount.processors)
    /\ mount' = [mount EXCEPT !.last_activity_at =
                     IF SomethingHappened(mcall.outcome) THEN clock ELSE @]
    /\ mcall' = MountIdle(Some(mcall.outcome))
    /\ snap' = None
    /\ UNCHANGED <<clock, nsent, notMount>>

\* ProcessorMount::put_snapshot is entered, between two process calls.
MountSnapshotCall ==
    /\ mcall.pc = "idle"
    /\ mcall' = [mcall EXCEPT !.pc = "snapshot", !.readings = <<>>]
    /\ snap' = None
    /\ UNCHANGED <<clock, nsent, mount, notMount>>

\* The next component with a limit that put_snapshot reaches reads the
\* clock.
MountSnapshotRead ==
    /\ mcall.pc = "snapshot"
    /\ Len(mcall.readings) < Len(Readers(mount))
    /\ mcall' = [mcall EXCEPT
                    !.readings = Reached(mount, Append(@, Some(clock)))]
    /\ snap' = None
    /\ UNCHANGED <<clock, nsent, mount, notMount>>

\* ProcessorMount::put_snapshot returns: every component reached has
\* written its items, by the instant it read.
MountSnapshotReturn ==
    /\ mcall.pc = "snapshot"
    /\ Len(mcall.readings) = Len(Readers(mount))
    /\ snap' = Some([at |-> clock,
                     read |-> Readings(mount, mcall.readings),
                     items |-> MountPutSnapshot(mount,
                                                Readings(mount, mcall.readings))])
    /\ mcall' = [mcall EXCEPT !.pc = "idle", !.readings = <<>>]
    /\ UNCHANGED <<clock, nsent, mount, notMount>>

MountNext ==
    \/ Tick
    \/ MountSend
    \/ MountDropTransmitters
    \/ MountProcessCall
    \/ MountChildEnter
    \/ MountChildStep
    \/ MountChildReturn
    \/ MountProcessReturn
    \/ MountSnapshotCall
    \/ MountSnapshotRead
    \/ MountSnapshotReturn

MountSpec == MountInit /\ [][MountNext]_vars

\* A processor of a mount on which set_inactivity_limit was never called,
\* nor on its handler panel.
UnlimitedProcessor(name, now) ==
    Owned(Some(name), <<CockpitC1(0)>>, <<Leaf(AcceptAll, "h", now)>>, now,
          None)

\* ProcessorMount::new, add_processor twice and add_snapshooter.
UnlimitedMount(now) ==
    [name |-> Some("mount"),
     processors |-> <<UnlimitedProcessor("p1", now),
                      UnlimitedProcessor("p2", now)>>,
     snapshooters |-> <<"sn">>,
     last_activity_at |-> now,
     max_inactivity_duration |-> None]

\* The runs of a mount without inactivity limits.
UnlimitedInit ==
    /\ workload \in MountWorkloads
    /\ NewPair
    /\ max_inactivity_duration = None
    /\ solo_panel = None
    /\ ncalls = 0
    /\ call = None
    /\ solo_filter = None
    /\ added = <<>>
    /\ mount = UnlimitedMount(clock)
    /\ mcall = MountIdle(None)

\* The steps of a run on a mount without limits: as no component has a
\* limit, put_snapshot reads no clock.
UnlimitedNext ==
    \/ Tick
    \/ MountSend
    \/ MountDropTransmitters
    \/ MountProcessCall
    \/ MountChildEnter
    \/ MountChildStep
    \/ MountChildReturn
    \/ MountProcessReturn
    \/ MountSnapshotCall
    \/ MountSnapshotReturn

UnlimitedSpec == UnlimitedInit /\ [][UnlimitedNext]_vars

(* ------------------------- a LabelFilter alone ------------------------ *)

\* The add_label calls made on the filter over a run.
MaxAdds == 7

\* The labels added and asked for: one more than the widest fixed-arity
\* state holds.
FilterLabels == {"A", "B", "C", "D", "E", "F"}

\* LabelFilter::many(vec![]) or LabelFilter::default(); added lists the
\* add_label calls made since, each with the filter it was made on.
FilterInit ==
    /\ workload = "filter"
    /\ NewPair
    /\ max_inactivity_duration = None
    /\ solo_panel = None
    /\ ncalls = 0
    /\ call = None
    /\ solo_filter \in {Some(AcceptNone), Some(AcceptAll)}
    /\ added = <<>>
    /\ mount = None
    /\ mcall = None

\* Everything but the filter and the calls made on it.
notFilter == <<workload, clock, txAlive, queue, nsent, procFields, pc, locals,
               outcome, exit, ghosts, max_inactivity_duration, counted_at,
               snap, solo_panel, ncalls, call, mount, mcall>>

\* filter.add_label(label)
FilterAddLabel ==
    /\ Len(added) < MaxAdds
    /\ \E label \in FilterLabels :
          /\ solo_filter' = Some(AddLabel(solo_filter[1], label))
          /\ added' = Append(added, [label |-> label, before |-> solo_filter[1]])
    /\ UNCHANGED notFilter

FilterNext == FilterAddLabel

FilterSpec == FilterInit /\ [][FilterNext]_vars

(* --------------------------- a Panel alone ---------------------------- *)

\* The handle_observation calls made on the panel over a run.
MaxCalls == 2

\* A panel for label A with every slot filled, a second counter (which
\* becomes a handler), a snapshooter, and a child panel for each label.
FullPanel(now) ==
    WithPanel(
      WithPanel(
        WithSnapshooter(
          WithCounter(WithHistogram(WithMeter(WithGauge(WithCounter(
            NewPanelAt(One("A"), None, 0, now)))))),
          "sn"),
        Leaf(One("A"), "ca", now)),
      Leaf(One("B"), "cb", now))

\* A panel for every label with a meter alone and one child panel, which
\* has a child of its own.
SparsePanel(now) ==
    WithPanel(WithMeter(NewPanelAt(AcceptAll, Some("sp"), 0, now)),
              WithPanel(Leaf(AcceptAll, "ca", now), Leaf(One("B"), "cb", now)))

\* The panels of a run, with and without an inactivity limit.
SoloPanels(now) ==
    LET shapes == {FullPanel(now), SparsePanel(now)}
    IN shapes \cup {WithInactivityLimit(p, d) : p \in shapes, d \in Limits}

PanelInit ==
    /\ workload = "panel"
    /\ NewPair
    /\ max_inactivity_duration = None
    /\ solo_panel \in {Some(p) : p \in SoloPanels(clock)}
    /\ ncalls = 0
    /\ call = None
    /\ solo_filter = None
    /\ added = <<>>
    /\ mount = None
    /\ mcall = None

\* Everything but the panel, its history, the clock and the snapshot.
notPanel == <<workload, txAlive, queue, nsent, procFields, pc, locals,
              outcome, exit, ghosts, max_inactivity_duration, counted_at,
              solo_filter, added, mount, mcall>>

\* The panel is left as r.self by a call for label l that returned r.n.
PanelCalled(l, r) ==
    /\ solo_panel' = Some(r.self)
    /\ call' = Some([label |-> l, at |-> clock, before |-> solo_panel[1],
                     n |-> r.n, trace |-> r.trace])

\* Panel::handle_observation is called on the panel.
PanelObserve ==
    /\ ncalls < MaxCalls
    /\ ncalls' = ncalls + 1
    /\ \E l \in Labels :
          PanelCalled(l, PanelHandle(solo_panel[1], ObservedOne(l, clock)))
    /\ snap' = None
    /\ UNCHANGED <<clock, notPanel>>

\* Panel::put_snapshot is called on the panel.
PanelSnapshot ==
    /\ snap' = Some([at |-> clock,
                     items |-> PanelPutSnapshot(solo_panel[1], clock)])
    /\ UNCHANGED <<clock, solo_panel, ncalls, call, notPanel>>

PanelNext ==
    \/ Tick
    \/ PanelObserve
    \/ PanelSnapshot

PanelSpec == PanelInit /\ [][PanelNext]_vars

(* -------------------------- a run end to end -------------------------- *)

\* The max of the one kind of call made in the run.
BatchMax == 10

\* What the producer sends over the run, in this order: three observations
\* for label A and one of five occurrences for label B.
Script(now) ==
    <<ObservedOne("A", now), ObservedOne("A", now), ObservedOne("A", now),
      Observed("B", 5, now)>>

\* new_pair and add_cockpit: the processor owns one cockpit with one panel
\* for label A that holds a counter.
BatchInit ==
    /\ workload = "script"
    /\ clock = 1
    /\ txAlive = TRUE
    /\ queue = <<>>
    /\ nsent = 0
    /\ cockpits = <<CockpitC1(0)>>
    /\ handlers = <<>>
    /\ last_activity_at = clock
    /\ is_disconnected = FALSE
    /\ pc = "idle"
    /\ max = 0
    /\ strategy = ProcessAll
    /\ decider = Decider(ProcessAll, 0)
    /\ num_received = 0
    /\ processed = 0
    /\ dropped = 0
    /\ instruments_updated = 0
    /\ outcome = DefaultOutcome
    /\ exit = "none"
    /\ hist = <<>>
    /\ started_at = 0
    /\ pre = <<>>
    /\ counted_at = 0
    /\ snap = None
    /\ max_inactivity_duration = None
    /\ NoBench

\* The producer sends the next observation of the script.
ScriptSend ==
    /\ txAlive
    /\ nsent < Len(Script(clock))
    /\ nsent' = nsent + 1
    /\ queue' = Append(queue, ObservationMsg(Script(clock)[nsent + 1], nsent + 1))
    /\ snap' = None
    /\ UNCHANGED <<workload, clock, txAlive, procFields, pc, locals, outcome, exit,
                   ghosts, max_inactivity_duration, counted_at, bench>>

\* process(BatchMax, ProcessingStrategy::ProcessAll) is entered.
BatchCall ==
    /\ pc = "idle"
    /\ IF EarlyReturn(is_disconnected)
       THEN /\ outcome' = DefaultOutcome
            /\ exit' = "early"
            /\ hist' = <<>>
            /\ UNCHANGED <<pc, locals, started_at, pre>>
       ELSE /\ pc' = "loop"
            /\ max' = BatchMax
            /\ strategy' = ProcessAll
            /\ decider' = Decider(ProcessAll, clock)
            /\ num_received' = 0
            /\ processed' = 0
            /\ dropped' = 0
            /\ instruments_updated' = 0
            /\ hist' = <<>>
            /\ started_at' = clock
            /\ pre' = <<[cockpits |-> cockpits, handlers |-> handlers,
                        last_activity_at |-> last_activity_at]>>
            /\ UNCHANGED <<outcome, exit>>
    /\ snap' = None
    /\ UNCHANGED <<workload, clock, txAlive, queue, nsent, procFields,
                   max_inactivity_duration, counted_at, bench>>

BatchNext ==
    \/ ScriptSend
    \/ BatchCall
    \/ ProcessStep
    \/ ProcessReturn

BatchSpec == BatchInit /\ [][BatchNext]_vars

(* ------------------ the projections of an Observation ----------------- *)

\* The largest count and the largest value an observation carries.
MaxPayload == 6

\* The observations projected: every variant, label, payload and instant.
AllObservations ==
    {Observed(l, c, t) : l \in Labels, c \in 0..MaxPayload, t \in 0..MaxClock}
    \cup {ObservedOne(l, t) : l \in Labels, t \in 0..MaxClock}
    \cup {ObservedOneValue(l, v, t) :
             l \in Labels, v \in 0..MaxPayload, t \in 0..MaxClock}

\* No projection has been made yet.
ProjectInit ==
    /\ workload = "projection"
    /\ NewPair
    /\ max_inactivity_duration = None
    /\ NoBench

\* Everything but the record of the last call.
notCall == <<workload, clock, txAlive, queue, nsent, procFields, pc, locals,
             outcome, exit, ghosts, max_inactivity_duration, counted_at, snap,
             solo_panel, ncalls, solo_filter, added, mount, mcall>>

\* BorrowedLabelAndUpdate::from(&obs) and then LabelAndUpdate::from(obs) on
\* an observation.
Project ==
    /\ \E obs \in AllObservations :
          call' = Some([obs |-> obs,
                        borrowed |-> BorrowedLabelAndUpdate(obs),
                        owned |-> LabelAndUpdate(obs)])
    /\ UNCHANGED notCall

ProjectNext == Project

ProjectSpec == ProjectInit /\ [][ProjectNext]_vars

(* ------------------------- a Panel being built ------------------------ *)

\* The instruments added to the panel over a run.
MaxBuilds == 3

\* The kinds of instrument a panel has a slot for.
Kinds == {"counter", "gauge", "meter", "histogram"}

\* add_counter, add_gauge, add_meter or add_histogram, by the kind of the
\* instrument.
AddInstrument(p, kind) ==
    CASE kind = "counter" -> WithCounter(p)
      [] kind = "gauge" -> WithGauge(p)
      [] kind = "meter" -> WithMeter(p)
      [] kind = "histogram" -> WithHistogram(p)

\* The deprecated set_counter, set_gauge, set_meter or set_histogram, by the
\* kind of the instrument: the slot is overwritten.
SetInstrument(p, kind) ==
    CASE kind = "counter" -> [p EXCEPT !.counter = Some(Instrument(kind))]
      [] kind = "gauge" -> [p EXCEPT !.gauge = Some(Instrument(kind))]
      [] kind = "meter" -> [p EXCEPT !.meter = Some(Instrument(kind))]
      [] kind = "histogram" -> [p EXCEPT !.histogram = Some(Instrument(kind))]

\* Panel::add_instrument: the instrument goes to the handlers in an adapter,
\* whatever the slots hold.
PushInstrument(p) == [p EXCEPT !.handlers = Append(@, Instrument("instrument"))]

\* Panel::add_handler, for a handler that updates one instrument.
PushHandler(p) == [p EXCEPT !.handlers = Append(@, Instrument("handler"))]

\* Panel::new for label A; added lists the calls that have built the panel
\* since, each with the function called and the kind of the instrument.
BuildInit ==
    /\ workload = "build"
    /\ NewPair
    /\ max_inactivity_duration = None
    /\ solo_panel = Some(NewPanelAt(One("A"), None, 0, clock))
    /\ ncalls = 0
    /\ call = None
    /\ solo_filter = None
    /\ added = <<>>
    /\ mount = None
    /\ mcall = None

\* The panel is left as q by the call op for an instrument of the kind.
Built(op, kind, q) ==
    /\ Len(added) < MaxBuilds
    /\ solo_panel' = Some(q)
    /\ added' = Append(added, [op |-> op, kind |-> kind])
    /\ snap' = None
    /\ UNCHANGED <<workload, clock, txAlive, queue, nsent, procFields, pc,
                   locals, outcome, exit, ghosts, max_inactivity_duration,
                   counted_at, ncalls, call, solo_filter, mount, mcall>>

\* An instrument is added to the panel with add_<kind>.
PanelAdd ==
    \E kind \in Kinds : Built("add", kind, AddInstrument(solo_panel[1], kind))

\* An instrument is put into its slot with set_<kind>.
PanelSet ==
    \E kind \in Kinds : Built("set", kind, SetInstrument(solo_panel[1], kind))

\* Panel::add_instrument is called.
PanelAddInstrument ==
    Built("add_instrument", "instrument", PushInstrument(solo_panel[1]))

\* Panel::add_handler is called.
PanelAddHandler ==
    Built("add_handler", "handler", PushHandler(solo_panel[1]))

BuildNext ==
    \/ PanelAdd
    \/ PanelSet
    \/ PanelAddInstrument
    \/ PanelAddHandler
    \/ PanelObserve
    \/ PanelSnapshot

BuildSpec == BuildInit /\ [][BuildNext]_vars

(* ------------------------------ claims -------------------------------- *)

\* A process call is under way: past its entry and not yet returned.
Running == pc \in {"loop", "break"}

\* The call that last ran to its end has returned an outcome.
Returned == pc = "idle" /\ exit = "normal"

IsObs(e) == e.msg.type = "Observation"

IsStructural(e) == e.msg.type \in {"AddCockpit", "AddHandler", "AddPanel"}

\* The number of entries of the sequence h that satisfy P.
Count(h, P(_)) == Cardinality({i \in 1..Len(h) : P(h[i])})

AdmittedObs(e) == IsObs(e) /\ e.admitted

RejectedObs(e) == IsObs(e) /\ ~e.admitted

\* What the handle_observation calls made for entry e returned, summed.
Returned_n(e) == SumSeq([k \in 1..Len(e.targets) |-> e.targets[k].n])

\* C1: a process call makes at most max receive attempts, receives at most
\* max messages (each counted once, as processed or as dropped), and a call
\* that has entered its loop returns, whatever the producers do meanwhile.
C1_BoundedDrain ==
    /\ [](Running => /\ num_received <= max
                     /\ Len(hist) <= num_received
                     /\ processed + dropped = Len(hist))
    /\ (Running ~> pc = "idle")

\* C1 witness: a call has used up its max attempts on messages while the
\* channel still holds one.
C1_Witness ==
    /\ pc = "loop"
    /\ max > 0
    /\ num_received = max
    /\ Len(hist) = max
    /\ queue # <<>>

\* C2: once set, is_disconnected stays set; and every process call on a
\* disconnected processor returns the zeroed outcome at once: it does not
\* enter the loop, takes nothing from the channel and leaves cockpits,
\* handlers and last_activity_at as they are.
C2_StickyDisconnect ==
    [][/\ is_disconnected => is_disconnected'
       /\ (is_disconnected /\ pc = "idle") =>
             /\ pc' = "idle"
             /\ queue' = queue
             /\ cockpits' = cockpits
             /\ handlers' = handlers
             /\ last_activity_at' = last_activity_at
             /\ \/ outcome' = outcome /\ exit' = exit
                \/ outcome' = DefaultOutcome /\ exit' = "early"]_vars

\* C2 witness: a disconnected processor has been called again and has
\* returned early.
C2_Witness ==
    /\ is_disconnected
    /\ pc = "idle"
    /\ exit = "early"
    /\ outcome = DefaultOutcome

\* The deadline of the current call under DropOlderThan: the time at the
\* start of the call less max_age.
Cutoff == started_at - strategy.max_age

\* C3: under DropOlderThan(d) an observation is admitted iff its timestamp
\* is strictly greater than (start of the call) - d; processed counts the
\* admitted ones, dropped the others.
C3_DropOlderThan ==
    (Running /\ strategy.kind = "DropOlderThan") =>
        /\ \A i \in 1..Len(hist) :
              IsObs(hist[i]) =>
                (hist[i].admitted <=> hist[i].msg.obs.timestamp > Cutoff)
        /\ dropped = Cardinality({i \in 1..Len(hist) :
                          IsObs(hist[i]) /\ hist[i].msg.obs.timestamp <= Cutoff})
        /\ processed = Len(hist) - dropped

\* C3 witness: one call has dropped an observation exactly at the cutoff and
\* admitted one above it.
C3_Witness ==
    /\ Running
    /\ strategy.kind = "DropOlderThan"
    /\ \E i, j \in 1..Len(hist) :
          /\ IsObs(hist[i]) /\ IsObs(hist[j])
          /\ hist[i].msg.obs.timestamp = Cutoff /\ ~hist[i].admitted
          /\ hist[j].msg.obs.timestamp > Cutoff /\ hist[j].admitted
    /\ dropped = 1
    /\ processed = 1

\* C4: two observations with the same timestamp received in one call get
\* the same decision, even if the clock advances during the call.
C4_OneCutoffPerBatch ==
    \A i, j \in 1..Len(hist) :
        (/\ IsObs(hist[i]) /\ IsObs(hist[j])
         /\ hist[i].msg.obs.timestamp = hist[j].msg.obs.timestamp)
        => hist[i].admitted = hist[j].admitted

\* C4 witness: two observations with one timestamp were both admitted under
\* DropOlderThan in a call during which the clock has moved so far that a
\* deadline computed now would drop that timestamp.
C4_Witness ==
    /\ Running
    /\ strategy.kind = "DropOlderThan"
    /\ Len(hist) = 2
    /\ IsObs(hist[1]) /\ IsObs(hist[2])
    /\ hist[1].msg.obs.timestamp = hist[2].msg.obs.timestamp
    /\ hist[1].admitted /\ hist[2].admitted
    /\ clock > started_at
    /\ ~ShouldBeProcessed(Decider(strategy, clock), hist[2].msg.obs)

\* C5: a rejected observation is counted in dropped and reaches no cockpit
\* and no handler; a call that has received only rejected observations has
\* left cockpits and handlers as they were and returns
\* instruments_updated = 0.
C5_DroppedNotDispatched ==
    /\ \A i \in 1..Len(hist) : RejectedObs(hist[i]) => hist[i].targets = <<>>
    /\ (Running /\ \A i \in 1..Len(hist) : RejectedObs(hist[i])) =>
          /\ cockpits = pre[1].cockpits
          /\ handlers = pre[1].handlers
          /\ instruments_updated = 0
          /\ dropped = Len(hist)
    /\ (Returned /\ \A i \in 1..Len(hist) : RejectedObs(hist[i])) =>
          /\ outcome.instruments_updated = 0
          /\ outcome.dropped = Len(hist)

\* C5 witness: a DropAll call has dropped two observations for a label that
\* panels of the processor accept.
C5_Witness ==
    /\ Running
    /\ strategy = DropAll
    /\ Len(hist) = 2
    /\ \A i \in 1..2 : RejectedObs(hist[i]) /\ hist[i].msg.obs.label = "A"

\* The number of AddCockpit (AddHandler) messages among the first n entries
\* of the batch.
Added(type, n) ==
    Cardinality({i \in 1..n : hist[i].msg.type = type})

\* C6: an admitted observation is handed exactly once to every cockpit and
\* every handler owned when it is received (those owned at the start of the
\* call and those added by earlier messages of the batch): the cockpits in
\* insertion order, then the handlers in insertion order, whether or not
\* they accept the label.
C6_DispatchToAll ==
    Running =>
      \A i \in 1..Len(hist) :
        AdmittedObs(hist[i]) =>
          LET nc == Len(pre[1].cockpits) + Added("AddCockpit", i - 1)
              nh == Len(pre[1].handlers) + Added("AddHandler", i - 1)
              t == hist[i].targets
          IN /\ Len(t) = nc + nh
             /\ \A k \in 1..nc : t[k].kind = "cockpit" /\ t[k].idx = k
             /\ \A k \in 1..nh :
                   t[nc + k].kind = "handler" /\ t[nc + k].idx = k

\* C6 witness: an observation for a label no cockpit accepts has been handed
\* to both cockpits (which returned 0) and then to a handler.
C6_Witness ==
    /\ Running
    /\ \E i \in 1..Len(hist) :
          /\ AdmittedObs(hist[i])
          /\ hist[i].msg.obs.label = "B"
          /\ Len(hist[i].targets) = 3
          /\ hist[i].targets[1].n = 0
          /\ hist[i].targets[2].n = 0
          /\ hist[i].targets[3].kind = "handler"
          /\ hist[i].targets[3].n = 1

\* C7: messages are received in send order, and an admitted observation is
\* handed to a cockpit or handler that came in a message iff that message
\* was sent before the observation.
C7_Fifo ==
    /\ \A i \in 1..Len(hist) :
          hist[i].msg.seq = (nsent - Len(queue) - Len(hist)) + i
    /\ \A j \in 1..Len(queue) : queue[j].seq = (nsent - Len(queue)) + j
    /\ \A i \in 1..Len(hist) :
          AdmittedObs(hist[i]) =>
            /\ \A k \in 1..Len(cockpits) :
                  (cockpits[k].id < hist[i].msg.seq) <=>
                  (\E t \in 1..Len(hist[i].targets) :
                      /\ hist[i].targets[t].kind = "cockpit"
                      /\ hist[i].targets[t].idx = k)
            /\ \A k \in 1..Len(handlers) :
                  (handlers[k].id < hist[i].msg.seq) <=>
                  (\E t \in 1..Len(hist[i].targets) :
                      /\ hist[i].targets[t].kind = "handler"
                      /\ hist[i].targets[t].idx = k)

\* C7 witness: one call has received an observation and after it the
\* AddCockpit message sent after it; the observation went to the two
\* cockpits owned before and not to the third.
C7_Witness ==
    /\ Len(hist) = 2
    /\ AdmittedObs(hist[1])
    /\ hist[2].msg.type = "AddCockpit"
    /\ Len(cockpits) = 3
    /\ Len(hist[1].targets) = 2

\* The entry the step has appended to the batch.
Last(h) == h[Len(h)]

\* C8: under every strategy a received AddCockpit (AddHandler) message
\* appends its cockpit (handler) and adds exactly 1 to processed and nothing
\* to dropped.
C8_StructuralAlwaysApplied ==
    [][(Len(hist') = Len(hist) + 1 /\
        Last(hist').msg.type \in {"AddCockpit", "AddHandler"}) =>
          /\ processed' = processed + 1
          /\ dropped' = dropped
          /\ Last(hist').msg.type = "AddCockpit" =>
                /\ cockpits' = Append(cockpits, Last(hist').msg.cockpit)
                /\ handlers' = handlers
          /\ Last(hist').msg.type = "AddHandler" =>
                /\ handlers' = Append(handlers, Last(hist').msg.handler)
                /\ cockpits' = cockpits]_vars

\* C8 witness: a DropAll call has dropped an observation and applied an
\* AddCockpit message.
C8_Witness ==
    /\ Running
    /\ strategy = DropAll
    /\ Len(hist) = 2
    /\ RejectedObs(hist[1])
    /\ hist[2].msg.type = "AddCockpit"
    /\ Len(cockpits) = 3
    /\ processed = 1
    /\ dropped = 1

\* Cockpit k of cs bears the name n.
Named(cs, k, n) == cs[k].name = <<n>>

\* C9: a received AddPanel message appends its panel to the first cockpit
\* whose name equals cockpit_name and changes no other cockpit; without
\* such a cockpit no cockpit changes; either way processed grows by exactly
\* 1, dropped and the handlers stay.
C9_AddPanelByName ==
    [][(Len(hist') = Len(hist) + 1 /\ Last(hist').msg.type = "AddPanel") =>
          LET m == Last(hist').msg
              hits == {k \in 1..Len(cockpits) : Named(cockpits, k, m.cockpit_name)}
          IN /\ processed' = processed + 1
             /\ dropped' = dropped
             /\ handlers' = handlers
             /\ Len(cockpits') = Len(cockpits)
             /\ hits = {} => cockpits' = cockpits
             /\ \A k \in hits :
                   IF \A j \in hits : k <= j
                   THEN /\ cockpits'[k].panels =
                              Append(cockpits[k].panels, m.panel)
                        /\ cockpits'[k].name = cockpits[k].name
                   ELSE cockpits'[k] = cockpits[k]
             /\ \A k \in (1..Len(cockpits)) \ hits :
                   cockpits'[k] = cockpits[k]]_vars

\* C9 witness: with an unnamed cockpit and two cockpits named c1, an
\* AddPanel for c1 has put its panel into the first c1 alone.
C9_Witness ==
    /\ Running
    /\ Len(hist) = 2
    /\ hist[2].msg.type = "AddPanel"
    /\ hist[2].msg.cockpit_name = "c1"
    /\ Len(cockpits) = 3
    /\ cockpits[1].name = <<>>
    /\ cockpits[2].name = <<"c1">> /\ Len(cockpits[2].panels) = 2
    /\ cockpits[3].name = <<"c1">> /\ Len(cockpits[3].panels) = 1
    /\ processed = 2

\* C10: processed = admitted observations + structural messages, dropped =
\* rejected observations, processed + dropped = messages received, and
\* instruments_updated = the sum of what handle_observation returned for
\* every cockpit and handler and every admitted observation; the returned
\* outcome carries these numbers.
C10_OutcomeAccounting ==
    LET pr == Count(hist, AdmittedObs) + Count(hist, IsStructural)
        dr == Count(hist, RejectedObs)
        iu == SumSeq([i \in 1..Len(hist) |-> Returned_n(hist[i])])
    IN /\ Running =>
            /\ processed = pr
            /\ dropped = dr
            /\ processed + dropped = Len(hist)
            /\ instruments_updated = iu
       /\ Returned =>
            /\ outcome.processed = pr
            /\ outcome.dropped = dr
            /\ outcome.processed + outcome.dropped = Len(hist)
            /\ outcome.instruments_updated = iu

\* C10 witness: a call has returned after dropping one observation and
\* admitting another, which the counter of each of the two cockpits took up.
C10_Witness ==
    /\ Returned
    /\ Len(hist) = 2
    /\ outcome.processed = 1
    /\ outcome.dropped = 1
    /\ outcome.instruments_updated = 2

\* C11: the return of a process call sets last_activity_at to the current
\* time iff processed + dropped > 0 (so a call that only drops refreshes it,
\* and one that only finds the channel empty or only detects disconnection
\* does not); no other step, the early return of a disconnected processor
\* included, changes it.
C11_LastActivity ==
    [][IF Running /\ pc' = "idle"
       THEN last_activity_at' =
               IF processed + dropped > 0 THEN clock ELSE last_activity_at
       ELSE last_activity_at' = last_activity_at]_vars

\* C11 witness: a call that received two observations and dropped both has
\* returned at instant 3 and has refreshed last_activity_at.
C11_Witness ==
    /\ Returned
    /\ Len(hist) = 2
    /\ \A i \in 1..2 : RejectedObs(hist[i])
    /\ outcome.processed = 0
    /\ outcome.dropped = 2
    /\ clock = 3
    /\ last_activity_at = 3

\* The last handle_observation call made on the panel used on its own.
LastCall == call[1]

\* That call was made with a label the panel's filter accepts.
CallAccepted ==
    call # None /\ Accepts(LastCall.before.label_filter, LastCall.label)

\* C12: a handle_observation call with a label the panel's filter rejects
\* returns 0, calls no slot, child panel or handler, and leaves the panel
\* with all its parts as it was.
C12_ShortCircuit ==
    (call # None /\ ~CallAccepted) =>
        /\ LastCall.n = 0
        /\ LastCall.trace = <<>>
        /\ solo_panel[1] = LastCall.before

\* C12 witness: a panel for label A with filled slots was given label B,
\* which one of its child panels accepts.
C12_Witness ==
    /\ call # None
    /\ ~CallAccepted
    /\ LastCall.before.counter # None
    /\ \E k \in 1..Len(LastCall.before.panels) :
          Accepts(LastCall.before.panels[k].label_filter, LastCall.label)
    /\ LastCall.n = 0

SlotNames == <<"counter", "gauge", "meter", "histogram">>

RECURSIVE Present(_, _)
\* The slots among names that panel p has filled, in the order of names.
Present(p, names) ==
    IF names = <<>> THEN <<>>
    ELSE (IF p[Head(names)] = None THEN <<>> ELSE <<Head(names)>>)
         \o Present(p, Tail(names))

\* C13: a handle_observation call with an accepted label calls every filled
\* slot once in the order counter, gauge, meter, histogram, then every child
\* panel in insertion order, then every handler in insertion order; each
\* slot and handler takes exactly one update, a child whose own filter
\* rejects the label returns 0 and stays as it was, and the call returns the
\* sum of what these calls returned.
C13_ForwardOnce ==
    CallAccepted =>
        LET b == LastCall.before
            a == solo_panel[1]
            t == LastCall.trace
            slots == Present(b, SlotNames)
            ns == Len(slots)
            np == Len(b.panels)
            nh == Len(b.handlers)
        IN /\ Len(t) = ns + np + nh
           /\ \A i \in 1..ns : t[i].part = slots[i] /\ t[i].idx = 1
           /\ \A k \in 1..np : t[ns + k].part = "panel" /\ t[ns + k].idx = k
           /\ \A k \in 1..nh :
                 t[ns + np + k].part = "handler" /\ t[ns + np + k].idx = k
           /\ \A i \in 1..4 :
                 IF b[SlotNames[i]] = None THEN a[SlotNames[i]] = None
                 ELSE a[SlotNames[i]][1].updates =
                         b[SlotNames[i]][1].updates + 1
           /\ Len(a.handlers) = nh
           /\ \A k \in 1..nh :
                 a.handlers[k].updates = b.handlers[k].updates + 1
           /\ Len(a.panels) = np
           /\ \A k \in 1..np :
                 IF Accepts(b.panels[k].label_filter, LastCall.label)
                 THEN /\ a.panels[k].counter[1].updates =
                            b.panels[k].counter[1].updates + 1
                      /\ t[ns + k].n >= 1
                 ELSE /\ a.panels[k] = b.panels[k]
                      /\ t[ns + k].n = 0
           /\ LastCall.n = SumSeq([i \in 1..Len(t) |-> t[i].n])

\* C13 witness: the panel with four slots, two child panels and a handler
\* was given label A: seven calls, the child for label B returned 0, and
\* the call returned 6.
C13_Witness ==
    /\ CallAccepted
    /\ Len(LastCall.trace) = 7
    /\ LastCall.trace[5].n = 1
    /\ LastCall.trace[6].n = 0
    /\ LastCall.n = 6

\* The level the panel's values were written to: a named panel opens a
\* level of its own.
PanelLevel ==
    IF solo_panel[1].name = None THEN snap[1].items
    ELSE snap[1].items[1].value

\* C14: a panel with inactivity limit d that had become inactive and then
\* took an observation with an accepted label into its instruments renders,
\* in a snapshot taken no more than d after that observation,
\* _inactive=false and _active=true followed by its contents.
C14_PanelRevives ==
    (/\ snap # None
     /\ CallAccepted
     /\ LastCall.n > 0
     /\ solo_panel[1].max_inactivity_duration # None
     /\ LastCall.at - LastCall.before.last_update >
            solo_panel[1].max_inactivity_duration[1]
     /\ snap[1].at - LastCall.at <= solo_panel[1].max_inactivity_duration[1])
    => /\ Len(PanelLevel) > 2
       /\ SubSeq(PanelLevel, 1, 2) = ActiveItems
       /\ PanelLevel = ActiveItems \o PanelContents(solo_panel[1], snap[1].at)

\* The level the processor's values were written to.
ProcessorLevel == snap[1].items[1].value

\* C15: once a process call that counted a message (processed + dropped >
\* 0) has returned, a snapshot of a processor with inactivity limit d taken
\* less than d after that return holds _inactive=false, _active=true and
\* then the processor's cockpits, handlers and snapshooters.
C15_ProcessorRevives ==
    (/\ snap # None
     /\ counted_at > 0
     /\ snap[1].at - counted_at < max_inactivity_duration[1])
    => /\ Len(ProcessorLevel) > 2
       /\ SubSeq(ProcessorLevel, 1, 2) = ActiveItems
       /\ ProcessorLevel = ActiveItems \o ProcessorContents(Self, snap[1].at)

\* C15 witness: with limit 1 the processor, last active at instant 1, was
\* inactive at instant 3; the call that received both messages of the run
\* returned at instant 3, and a snapshot taken then shows it active, with
\* its two cockpits.
C15_Witness ==
    /\ snap # None
    /\ max_inactivity_duration = Some(1)
    /\ Returned
    /\ Len(hist) = 2
    /\ counted_at = 3
    /\ snap[1].at = 3
    /\ SubSeq(ProcessorLevel, 1, 2) = ActiveItems
    /\ Len(ProcessorLevel) = 4

\* The names of the entries of a level after its two flags.
EntryNames(level) == [i \in 1..(Len(level) - 2) |-> level[i + 2].name]

\* What a level written at instant at shows of a component last active at
\* last with limit d: the inactive flags alone when more than d has
\* elapsed, else the active flags and then the entries called names.
Shows(level, last, d, at, names) ==
    IF at - last > d
    THEN level = InactiveItems
    ELSE /\ Len(level) = 2 + Len(names)
         /\ SubSeq(level, 1, 2) = ActiveItems
         /\ EntryNames(level) = names

\* The names a list of named components is rendered under.
NamesOf(components) ==
    [i \in 1..Len(components) |-> components[i].name[1]]

\* The level the mount's values were written to.
MountLevel == snap[1].items[1].value

\* The level processor i of the mount wrote its values to.
OwnedLevel(i) == MountLevel[2 + i].value

\* The level handler j of processor i of the mount wrote its values to.
HandlerLevel(i, j) ==
    OwnedLevel(i)[2 + Len(mount.processors[i].cockpits) + j].value

\* C16: in a snapshot of a mount whose processors and their handler panels
\* all have an inactivity limit d, each of the three kinds of component
\* (ProcessorMount, TelemetryProcessor, Panel) writes _inactive=true,
\* _active=false and nothing else when more than d has elapsed since its
\* last-activity timestamp, and writes _inactive=false, _active=true and
\* then one entry per child when at most d has elapsed, exactly d included.
C16_InactivityRule ==
    snap # None =>
        /\ Shows(MountLevel, mount.last_activity_at,
                 mount.max_inactivity_duration[1], snap[1].read.mount,
                 NamesOf(mount.processors) \o mount.snapshooters)
        /\ snap[1].read.mount - mount.last_activity_at
               <= mount.max_inactivity_duration[1]
           => \A i \in 1..Len(mount.processors) :
                 /\ Shows(OwnedLevel(i),
                          mount.processors[i].last_activity_at,
                          mount.processors[i].max_inactivity_duration[1],
                          snap[1].read.processors[i].self,
                          NamesOf(mount.processors[i].cockpits)
                          \o NamesOf(mount.processors[i].handlers))
                 /\ snap[1].read.processors[i].self
                        - mount.processors[i].last_activity_at
                        <= mount.processors[i].max_inactivity_duration[1]
                    => \A j \in 1..Len(mount.processors[i].handlers) :
                          Shows(HandlerLevel(i, j),
                                mount.processors[i].handlers[j].last_update,
                                mount.processors[i].handlers[j]
                                    .max_inactivity_duration[1],
                                snap[1].read.processors[i].handlers[j],
                                <<"counter">>)

\* C16 witness: with limit 1, the mount and its first processor were last
\* active at instant 2 and the second processor and the handler panels at
\* instant 1; the snapshot at instant 3 shows the mount and the first
\* processor, exactly at the limit, active with their children, and the
\* second processor and the first processor's panel, past it, inactive.
C16_Witness ==
    /\ snap # None
    /\ snap[1].at = 3
    /\ mount.max_inactivity_duration = Some(1)
    /\ mount.last_activity_at = 2
    /\ mount.processors[1].last_activity_at = 2
    /\ mount.processors[2].last_activity_at = 1
    /\ mount.processors[1].handlers[1].last_update = 1
    /\ SubSeq(MountLevel, 1, 2) = ActiveItems
    /\ Len(MountLevel) = 5
    /\ SubSeq(OwnedLevel(1), 1, 2) = ActiveItems
    /\ Len(OwnedLevel(1)) = 4
    /\ OwnedLevel(2) = InactiveItems
    /\ HandlerLevel(1, 1) = InactiveItems

\* The field-wise sum of the outcomes the processors returned, by the log
\* of the call.
LogSum(log) ==
    [processed |-> SumSeq([k \in 1..Len(log) |-> log[k].outcome.processed]),
     dropped |-> SumSeq([k \in 1..Len(log) |-> log[k].outcome.dropped]),
     instruments_updated |->
         SumSeq([k \in 1..Len(log) |-> log[k].outcome.instruments_updated])]

\* C19: when ProcessorMount::process(max, strategy) returns, every owned
\* processor has run process exactly once, in insertion order, with that
\* max and that strategy, each has received at most max messages, and the
\* outcome returned is the field-wise sum of the outcomes of the
\* processors.
C19_ForwardsAndSums ==
    [][(mcall.pc = "loop" /\ mcall'.pc = "idle") =>
          /\ Len(mcall.log) = Len(mount.processors)
          /\ \A k \in 1..Len(mcall.log) :
                /\ mcall.log[k].idx = k
                /\ mcall.log[k].max = mcall.max
                /\ mcall.log[k].strategy = mcall.strategy
                /\ mcall.log[k].received <= mcall.max
          /\ mcall'.ret = Some(LogSum(mcall.log))]_vars

\* C19 witness: a call process(1, ProcessAll) that has returned from both
\* processors, each having received one message, two in all, and is about
\* to return an outcome that counts both.
C19_Witness ==
    /\ mcall.pc = "loop"
    /\ mcall.idx > Len(mount.processors)
    /\ mcall.max = 1
    /\ mcall.strategy = ProcessAll
    /\ Len(mcall.log) = 2
    /\ mcall.log[1].received = 1
    /\ mcall.log[2].received = 1
    /\ mcall.outcome.processed = 2

\* The filter the run started from.
Origin == IF added = <<>> THEN solo_filter[1] ELSE added[1].before

\* The labels added to the filter so far.
AddedLabels == {added[i].label : i \in 1..Len(added)}

\* C17: after any sequence of add_label calls on the accept-none filter,
\* with or without repeated labels, before and after the promotion to
\* Many, accepts(x) is true exactly when x is one of the labels added.
C17_AcceptsWhatWasAdded ==
    (solo_filter # None /\ Origin = AcceptNone) =>
        \A x \in FilterLabels : Accepts(solo_filter[1], x) <=> x \in AddedLabels

\* C17 witness: seven calls on the accept-none filter, the first five with
\* five different labels and the last two with labels added before, have
\* led to Many; a sixth label, never added, is not accepted.
C17_Witness ==
    /\ solo_filter # None
    /\ Origin = AcceptNone
    /\ Len(added) = MaxAdds
    /\ solo_filter[1].kind = "Many"
    /\ Cardinality({added[i].label : i \in 1..5}) = 5
    /\ Cardinality(AddedLabels) = 5
    /\ \E x \in FilterLabels : ~Accepts(solo_filter[1], x)

\* The order of the states of a filter that holds labels.
Rank(kind) ==
    CASE kind = "AcceptNone" -> 0
      [] kind = "One" -> 1
      [] kind = "Two" -> 2
      [] kind = "Three" -> 3
      [] kind = "Four" -> 4
      [] kind = "Five" -> 5
      [] kind = "Many" -> 6
      [] kind = "AcceptAll" -> 7

\* C18: add_label never loses a label: what was accepted before the call is
\* accepted after it.  Accept-all stays accept-all, accept-none becomes One
\* of the added label, and One, Two, Three, Four and Five each move to the
\* next state and Many stays Many.
C18_AddLabelMonotone ==
    [][added' # added =>
          LET before == solo_filter[1]
              after == solo_filter'[1]
              label == added'[Len(added')].label
          IN /\ \A x \in FilterLabels :
                   Accepts(before, x) => Accepts(after, x)
             /\ Accepts(after, label)
             /\ before = AcceptAll => after = AcceptAll
             /\ before = AcceptNone => after = One(label)
             /\ Rank(before.kind) \in 1..5 =>
                   Rank(after.kind) = Rank(before.kind) + 1
             /\ before.kind = "Many" => after.kind = "Many"]_vars

\* C18 witness: the filter has gone from accept-none through every state to
\* Many, six different labels added and all of them accepted, and one more
\* label was added to Many.
C18_Witness ==
    /\ solo_filter # None
    /\ Origin = AcceptNone
    /\ Len(added) = MaxAdds
    /\ {Rank(added[i].before.kind) : i \in 1..Len(added)} = 0..6
    /\ Cardinality(AddedLabels) = 6
    /\ \A x \in FilterLabels : Accepts(solo_filter[1], x)

\* C20: process is total: a call process(max, strategy) never ends in a
\* fault, whatever the strategy; in particular process(max,
\* DropOlderThan(d)) sets up its decider and goes on to return an outcome
\* for every duration d, a d larger than the current clock value included.
C20_ProcessIsTotal == pc # "panicked" /\ exit # "panic"

\* The counter of the panel of the processor's one cockpit.
TheCounter == cockpits[1].panels[1].counter[1]

\* C21: on a processor with one cockpit whose one panel filters on label A
\* and holds a counter, a call process(10, ProcessAll) that receives three
\* ObservedOne for A and then one Observed with count 5 for B returns
\* processed = 4 and dropped = 0; the counter has been updated three times,
\* and the observation for B is counted as processed while no instrument
\* reports an update for it.
C21_EndToEnd ==
    (Returned /\ Len(hist) = 4) =>
        /\ outcome = [processed |-> 4, dropped |-> 0, instruments_updated |-> 3]
        /\ TheCounter.updates = 3
        /\ hist[4].msg.obs.label = "B"
        /\ hist[4].admitted
        /\ Returned_n(hist[4]) = 0

\* C21 witness: the call received all four messages of the script and has
\* returned.
C21_Witness ==
    /\ Returned
    /\ nsent = 4
    /\ Len(hist) = 4
    /\ \A k \in 1..3 : hist[k].msg.obs = ObservedOne("A", 1)
    /\ hist[4].msg.obs = Observed("B", 5, 1)
    /\ outcome.processed = 4

\* The observation a label and an update were split from.
Rebuilt(label, update) ==
    CASE update.kind = "Observations" ->
            Observed(label, update.count, update.timestamp)
      [] update.kind = "Observation" -> ObservedOne(label, update.timestamp)
      [] update.kind = "ObservationWithValue" ->
            ObservedOneValue(label, update.value, update.timestamp)

\* The kind of update each kind of observation is projected to.
UpdateKind(kind) ==
    CASE kind = "Observed" -> "Observations"
      [] kind = "ObservedOne" -> "Observation"
      [] kind = "ObservedOneValue" -> "ObservationWithValue"

\* C22: the projection of an observation to a label and an update is
\* defined for every observation and loses nothing: Observed becomes
\* Observations, ObservedOne becomes Observation and ObservedOneValue
\* becomes ObservationWithValue, the observation can be rebuilt from the
\* label and the update, and the owning and the borrowing projection give
\* the same label and the same update.
C22_ProjectionLossless ==
    (workload = "projection" /\ call # None) =>
        /\ call[1].owned[2].kind = UpdateKind(call[1].obs.kind)
        /\ call[1].owned[1] = call[1].obs.label
        /\ Rebuilt(call[1].owned[1], call[1].owned[2]) = call[1].obs
        /\ Rebuilt(call[1].borrowed[1], call[1].borrowed[2]) = call[1].obs
        /\ call[1].borrowed = call[1].owned

\* C22 witness: an Observed for label B with count 5 at instant 2 has been
\* projected both ways to B and Observations(5, 2).
C22_Witness ==
    /\ workload = "projection"
    /\ call # None
    /\ call[1].obs = Observed("B", 5, 2)
    /\ call[1].owned = <<"B", Observations(5, 2)>>
    /\ call[1].borrowed = <<"B", Observations(5, 2)>>

\* The slot of a panel for a kind of instrument.
Slot(p, kind) ==
    CASE kind = "counter" -> p.counter
      [] kind = "gauge" -> p.gauge
      [] kind = "meter" -> p.meter
      [] kind = "histogram" -> p.histogram

\* An instrument after one more update.
Updated(i) == [kind |-> i.kind, updates |-> i.updates + 1]

\* The instruments of a panel: those in its slots and its handlers.
InstrumentCount(p) ==
    Cardinality({k \in Kinds : Slot(p, k) # None}) + Len(p.handlers)

\* Every call that has built the panel so far was an add_<kind>.
OnlyAdds == \A i \in 1..Len(added) : added[i].op = "add"

\* C23: an instrument added with add_<kind> to a panel whose slot of that
\* kind is empty fills the slot; added to a panel whose slot of that kind is
\* filled it leaves the slot's instrument in place and is appended to the
\* generic handlers.  Nothing else changes, so after a sequence of such adds
\* the panel holds every instrument added, and an accepted observation
\* updates each instrument the panel holds exactly once.
C23_AddKeepsInstruments ==
    [][/\ (added' # added /\ added'[Len(added')].op = "add") =>
            LET kind == added'[Len(added')].kind
                p == solo_panel[1]
                q == solo_panel'[1]
            IN /\ \A k \in Kinds \ {kind} : Slot(q, k) = Slot(p, k)
               /\ IF Slot(p, kind) = None
                  THEN /\ Slot(q, kind) = Some(Instrument(kind))
                       /\ q.handlers = p.handlers
                  ELSE /\ Slot(q, kind) = Slot(p, kind)
                       /\ q.handlers = Append(p.handlers, Instrument(kind))
               /\ InstrumentCount(q) = InstrumentCount(p) + 1
               /\ OnlyAdds' => InstrumentCount(q) = Len(added')
       /\ (ncalls' # ncalls /\ Accepts(solo_panel[1].label_filter,
                                        call'[1].label)) =>
            LET p == solo_panel[1]
                q == solo_panel'[1]
            IN /\ \A k \in Kinds :
                     Slot(q, k) = [i \in 1..Len(Slot(p, k)) |->
                                      Updated(Slot(p, k)[i])]
               /\ q.handlers = [i \in 1..Len(p.handlers) |->
                                   Updated(p.handlers[i])]
               /\ call'[1].n = InstrumentCount(p)
               /\ OnlyAdds => call'[1].n = Len(added)]_vars

\* C23 witness: a counter was added, an observation for A handled, a second
\* counter added with add_counter and a second observation for A handled:
\* the counter of the slot has been updated twice and the second counter, a
\* handler, once.
C23_Witness ==
    /\ workload = "build"
    /\ added = <<[op |-> "add", kind |-> "counter"],
                 [op |-> "add", kind |-> "counter"]>>
    /\ ncalls = 2
    /\ solo_panel[1].counter = Some([kind |-> "counter", updates |-> 2])
    /\ solo_panel[1].handlers = <<[kind |-> "counter", updates |-> 1]>>
    /\ call[1].n = 2

\* C24: when a receive attempt of a process call has found the channel
\* empty (the call has made more attempts than it has received messages),
\* the batch has ended: the call receives no message after that, even if a
\* producer sends one while the call is still under way.
C24_EmptyEndsBatch ==
    [][(pc = "loop" /\ num_received > Len(hist)) =>
          Len(hist') <= Len(hist)]_vars

\* The names of the entries of a level, in order.
LevelNames(level) == [i \in 1..Len(level) |-> level[i].name]

\* n times the name s.
Times(n, s) == [i \in 1..n |-> s]

\* The names of the entries an active panel writes, from its fields: the
\* four slots in their fixed order, then a child panel, a snapshooter and a
\* handler at a time, each in insertion order.
PartsInOrder(p) ==
    Times(Len(p.counter), "counter") \o Times(Len(p.gauge), "gauge")
    \o Times(Len(p.meter), "meter") \o Times(Len(p.histogram), "histogram")
    \o [i \in 1..Len(p.panels) |-> p.panels[i].name[1]]
    \o p.snapshooters
    \o [i \in 1..Len(p.handlers) |-> p.handlers[i].kind]

\* The entries of the panel's level after the two flags, if it has a limit.
PanelEntries ==
    IF solo_panel[1].max_inactivity_duration = None THEN PanelLevel
    ELSE SubSeq(PanelLevel, 3, Len(PanelLevel))

\* The panel is active when the snapshot is taken.
PanelIsActive ==
    \/ solo_panel[1].max_inactivity_duration = None
    \/ snap[1].at - solo_panel[1].last_update
          <= solo_panel[1].max_inactivity_duration[1]

\* C25: the snapshot of an active panel lists its parts in the order
\* counter, gauge, meter, histogram, child panels, snapshooters, handlers,
\* the last three in insertion order; an instrument demoted to a handler
\* comes after the child panels and the snapshooters.
C25_SnapshotOrder ==
    (workload = "panel" /\ snap # None /\ PanelIsActive) =>
        LevelNames(PanelEntries) = PartsInOrder(solo_panel[1])

\* C25 witness: the snapshot of the panel with every slot filled, two child
\* panels, a snapshooter and a second counter, taken after an observation.
C25_Witness ==
    /\ workload = "panel"
    /\ snap # None
    /\ ncalls > 0
    /\ PanelIsActive
    /\ LevelNames(PanelEntries) =
          <<"counter", "gauge", "meter", "histogram", "ca", "cb", "sn",
            "counter">>

\* C26: a filter is in the Many state only if it holds more than five
\* different labels; as long as at most five different labels have been
\* added, however many add_label calls were made, it is in a fixed-arity
\* state.
C26_ManyOnlyBeyondFive ==
    (solo_filter # None /\ solo_filter[1].kind = "Many") =>
        Cardinality({solo_filter[1].labels[i] :
                        i \in 1..Len(solo_filter[1].labels)}) > 5

\* C27: the messages in the channel when the last transmitter is dropped
\* are not lost: the processor is only ever disconnected with an empty
\* channel, every message having been received by a process call before,
\* and under repeated process calls with max > 0 a processor whose
\* transmitters are gone does become disconnected in the end (unless a
\* call panics, see C20).
C27_DrainedThenDisconnected ==
    /\ [](is_disconnected => queue = <<>>)
    /\ (~txAlive) ~> (is_disconnected \/ pc = "panicked")

\* C27 witness: a call with max = 2 has received a message on its first
\* attempt and found the channel empty and without senders on its second,
\* which disconnected the processor.
C27_Witness ==
    /\ pc = "break"
    /\ is_disconnected
    /\ ~txAlive
    /\ max = 2
    /\ Len(hist) = 1
    /\ num_received = 1
    /\ queue = <<>>

\* C28: a call process(0, strategy) that has set up its locals makes no
\* receive attempt: until it returns no message leaves the channel, nothing
\* is received, is_disconnected and last_activity_at keep their values, and
\* it returns the zeroed outcome.  A processor whose transmitters are gone
\* is therefore not disconnected by such a call.
C28_MaxZeroNoOp ==
    [][(pc = "loop" /\ max = 0) =>
          /\ pc' \in {"loop", "idle"}
          /\ is_disconnected' = is_disconnected
          /\ last_activity_at' = last_activity_at
          /\ num_received' = 0
          /\ hist' = <<>>
          /\ Len(queue') >= Len(queue)
          /\ SubSeq(queue', 1, Len(queue)) = queue
          /\ pc' = "idle" => (outcome' = DefaultOutcome /\ exit' = "normal")]_vars

\* C28 witness: process(0, ..) is under way on a processor that is not
\* marked disconnected although its transmitters are gone and its channel
\* is empty; the loop guard is false and the call is about to return.
C28_Witness ==
    /\ pc = "loop"
    /\ max = 0
    /\ num_received = 0
    /\ ~txAlive
    /\ queue = <<>>
    /\ ~is_disconnected
    /\ ~LoopGuard(num_received, max)

\* The level processor i of a mount wrote its values to, no flags before it.
PlainOwnedLevel(i) == snap[1].items[1].value[i].value

\* The level handler j of processor i wrote its values to, no flags before
\* it.
PlainHandlerLevel(i, j) ==
    PlainOwnedLevel(i)[Len(mount.processors[i].cockpits) + j].value

\* C29: without an inactivity limit on the mount, on its processors and on
\* their handler panels, a snapshot holds no _inactive and no _active entry
\* on any of the three levels and lists the children of each component,
\* however long ago the component was last active.
C29_NoLimitNoFlags ==
    (snap # None /\ mount.max_inactivity_duration = None) =>
        /\ LevelNames(snap[1].items[1].value)
              = NamesOf(mount.processors) \o mount.snapshooters
        /\ \A i \in 1..Len(mount.processors) :
              /\ mount.processors[i].max_inactivity_duration = None
              /\ LevelNames(PlainOwnedLevel(i))
                    = NamesOf(mount.processors[i].cockpits)
                      \o NamesOf(mount.processors[i].handlers)
              /\ \A j \in 1..Len(mount.processors[i].handlers) :
                    /\ mount.processors[i].handlers[j].max_inactivity_duration
                          = None
                    /\ LevelNames(PlainHandlerLevel(i, j)) = <<"counter">>

\* C29 witness: a snapshot at instant 3 of a mount without limits whose
\* second processor and handler panels were last active at instant 1; the
\* mount and its first processor were active at instant 2.  Every level
\* lists its children.
C29_Witness ==
    /\ snap # None
    /\ mount.max_inactivity_duration = None
    /\ snap[1].at = 3
    /\ mount.last_activity_at = 2
    /\ mount.processors[1].last_activity_at = 2
    /\ mount.processors[2].last_activity_at = 1
    /\ mount.processors[2].handlers[1].last_update = 1
    /\ LevelNames(snap[1].items[1].value) = <<"p1", "p2", "sn">>
    /\ LevelNames(PlainOwnedLevel(2)) = <<"c1", "h">>
    /\ LevelNames(PlainHandlerLevel(2, 1)) = <<"counter">>

\* C30: when ProcessorMount::process returns it has called every processor,
\* disconnected or not, and has set the mount's last_activity_at to the
\* current instant if the summed outcome counts a message (processed +
\* dropped > 0) and left it alone otherwise; no other step changes it.  A
\* call on a mount whose processors were all disconnected before it returns
\* the zeroed outcome and leaves last_activity_at alone.
C30_MountActivity ==
    [][IF mcall.pc = "loop" /\ mcall'.pc = "idle"
       THEN /\ Len(mcall.log) = Len(mount.processors)
            /\ mount'.last_activity_at =
                  IF LogSum(mcall.log).processed + LogSum(mcall.log).dropped > 0
                  THEN clock
                  ELSE mount.last_activity_at
            /\ (\A k \in 1..Len(mcall.log) : mcall.log[k].disconnected) =>
                  /\ mcall'.ret = Some(DefaultOutcome)
                  /\ mount'.last_activity_at = mount.last_activity_at
       ELSE mount'.last_activity_at = mount.last_activity_at]_vars

\* C30 witness: at instant 3 a call on a mount last active at instant 1 has
\* called both processors, each of them disconnected before the call, and
\* is about to return the zeroed outcome.
C30_Witness ==
    /\ clock = 3
    /\ mount.last_activity_at = 1
    /\ mcall.pc = "loop"
    /\ mcall.idx > Len(mount.processors)
    /\ mcall.max > 0
    /\ Len(mcall.log) = 2
    /\ mcall.log[1].disconnected
    /\ mcall.log[2].disconnected
    /\ mcall.outcome = DefaultOutcome

\* The observations among the messages taken that the cutoff treats as too
\* old (not newer than it).
TooOld(taken, cutoff) ==
    {i \in 1..Len(taken) : /\ taken[i].type = "Observation"
                            /\ ~(taken[i].obs.timestamp > cutoff)}

\* The cutoff a processor of the call under way decided with, by entry e of
\* the log.
CutoffOf(e) == e.decider[1].deadline

\* The log entry e is of a processor that ran its drain.
RanItsDrain(e) == ~e.disconnected /\ ~e.panic

\* C31: within one ProcessorMount::process call with DropOlderThan(d), a
\* processor that runs its drain makes its own decider when its own call
\* starts: its cutoff is the instant at which that processor starts minus
\* d.  It keeps this cutoff until it returns, it drops exactly the
\* observations it receives that are not newer than this cutoff of its own,
\* and the cutoffs of the processors of the call are non-decreasing in the
\* order of the processors.
C31_OwnCutoffPerChild ==
    [][(mcall.pc = "loop" /\ mcall.strategy.kind = "DropOlderThan") =>
          /\ (mcall.child = None /\ mcall'.child # None) =>
                mcall'.child[1].decider =
                    [kind |-> "DropBeforeDeadline",
                     deadline |-> clock - mcall.strategy.max_age]
          /\ (mcall.child # None /\ mcall'.child # None) =>
                mcall'.child[1].decider = mcall.child[1].decider
          /\ Len(mcall'.log) = Len(mcall.log) + 1 =>
                LET e == mcall'.log[Len(mcall'.log)]
                IN  IF RanItsDrain(e)
                    THEN /\ e.decider = Some(mcall.child[1].decider)
                         /\ e.outcome.dropped =
                               Cardinality(TooOld(e.taken, CutoffOf(e)))
                         /\ \A j \in 1..Len(mcall.log) :
                               RanItsDrain(mcall.log[j]) =>
                                   CutoffOf(mcall.log[j]) <= CutoffOf(e)
                    ELSE e.decider = None]_vars

\* C31 witness: a call process(1, DropOlderThan(1)) in which both
\* processors received one observation with the same timestamp 2; the
\* first processor made the cutoff 1 and admitted it, the second started
\* later, made the cutoff 2 and dropped it.
C31_Witness ==
    /\ mcall.pc = "loop"
    /\ mcall.idx > Len(mount.processors)
    /\ mcall.strategy = DropOlderThan(1)
    /\ Len(mcall.log) = 2
    /\ Len(mcall.log[1].taken) = 1
    /\ Len(mcall.log[2].taken) = 1
    /\ mcall.log[1].taken[1].obs.timestamp = 2
    /\ mcall.log[2].taken[1].obs.timestamp = 2
    /\ RanItsDrain(mcall.log[1])
    /\ RanItsDrain(mcall.log[2])
    /\ CutoffOf(mcall.log[1]) = 1
    /\ CutoffOf(mcall.log[2]) = 2
    /\ mcall.log[1].outcome.processed = 1
    /\ mcall.log[1].outcome.dropped = 0
    /\ mcall.log[2].outcome.processed = 0
    /\ mcall.log[2].outcome.dropped = 1
    /\ clock = 3

====
